---- MODULE Spec2Model ----
(***************************************************************************)
(* A model of the recipe resolution engine of xeno (xeno/recipe.py):       *)
(* the staleness functions of Recipe (age, inputs_age, outdated, done),    *)
(* the locked resolution Recipe.__call__ / Recipe._resolve with its        *)
(* dependency and component phases, and Recipe.clean / clean_components.   *)
(*                                                                         *)
(* Three specifications share the definitions: Spec, a session of calls    *)
(* of one recipe with files modified and recipes cleaned in between;       *)
(* SpecConc, one batch of concurrent calls of a recipe; SpecAge, the       *)
(* staleness functions over every state of the files.                      *)
(*                                                                         *)
(* The recipe graph is a fixed small build:                                *)
(*     app  file target app.bin, components lib (positional) and obj       *)
(*          (keyword), ordering dependencies dir and cfg                   *)
(*     lib  file target lib.a, static input file lib.c                     *)
(*     obj  file target obj.o, no inputs of its own                        *)
(*     gen  no target, not memoized, setup recipe cfg, parent app,         *)
(*          component app                                                  *)
(*     cfg  no target, memoized                                            *)
(*     dir  file target outdir, keep=True                                  *)
(***************************************************************************)
EXTENDS Integers, Sequences, FiniteSets, TLC

VARIABLES
    fs,             \* the filesystem: file -> [kind, mtime]
    now,            \* the clock read by datetime.now()
    saved_result,   \* Recipe.saved_result of every recipe
    lock,           \* Recipe.lock of every recipe: TRUE when held
    active,         \* Recipe.active
    sync,           \* Recipe.sync of every recipe
    frames,         \* the calls of Recipe.__call__ in flight: call id -> frame
    root,           \* the recipe the callers of this session call
    round,          \* number of batches of top-level calls started so far
    makes,          \* side-effect counter: executions of make() per recipe
    makes0,         \* makes at the start of the current batch
    startDone,      \* per recipe: did done() return True when the batch started
    lastRet,        \* the value the root's last call returned, its inputs unchanged since
    failed,         \* did the root's last finished call end with an error
    odd,            \* executions of make() so far that did not simply succeed
    env,            \* outside operations since the last batch of calls
    shell,          \* xeno.shell.Shell: max_jobs, the semaphores, the run() calls
    bus,            \* xeno.events: the sessions, their EventBus objects, a run() task
    eng,            \* xeno.build: the registered targets, the last request and its answer
    shr,            \* xeno.recipes.shell: a ShellRecipe and its one call
    scn,            \* Recipe.Scanner: the scanner of a recipe and what was made of it
    inj,            \* xeno.sync_injector: a SyncInjector and the last operation on it
    added,          \* Recipe._deps: what add_dependency appended, per recipe
    raising,        \* is a listener registered that raises when it is sent SUCCESS
    cln,            \* a call of clean_components with removals that fail, and its outcome
    ainj            \* xeno.async_injector: an AsyncInjector and one require on it

vars == <<fs, now, saved_result, lock, active, sync, frames, root, round, makes,
          makes0, startDone, lastRet, failed, odd, env, shell, bus, eng, shr, scn, inj,
          added, raising, cln, ainj>>

\* the variables of the recipes and their files, and of the AsyncInjector,
\* which only its own actions change
recipeVars == <<fs, now, saved_result, lock, active, sync, frames, root, round, makes,
                makes0, startDone, lastRet, failed, odd, env, added, raising,
                cln, ainj>>

\* the variables no call of a recipe and no operation on the files changes
others == <<failed, shell, bus, eng, shr, scn, inj, added, raising, cln, ainj>>

----------------------------------------------------------------------------
(* Bounds of the model. *)

MaxTime == 2        \* the clock and the mtimes range over 0..MaxTime
MaxRounds == 2      \* batches of top-level calls in one session
NCallers == 2       \* concurrent top-level callers in one batch
MaxEnv == 1         \* outside operations (touch, clean) between two batches
MaxOdd == 2         \* executions of make() in one session that do anything
                    \* but produce and return the declared result
NCmds == 2          \* calls of Shell.run
MaxJobs == 2        \* the limits given to Shell.set_max_jobs are 0..MaxJobs
MaxSets == 2        \* calls of Shell.set_max_jobs
MaxSessions == 2    \* EventBus sessions entered
MaxSent == 2        \* events sent
MaxRegs == 2        \* calls of listen() and subscribe()
MaxNames == 2       \* names in the list of a query
MaxCode == 2        \* a command exits with a code in 0..MaxCode
MaxArgs == 2        \* positional arguments of a call, values in a returned iterable
MaxOps == 2         \* calls of provide and unbind_singleton on an injector
NDependents == 3    \* resources that depend on one singleton in a require
MaxAdded == 1       \* calls of add_dependency

----------------------------------------------------------------------------
(* The recipe graph. *)

Recipes == {"app", "lib", "obj", "gen", "cfg", "dir", "pkg"}

NoRecipe == "-"
NoFile == "-"

Targets == {"app.bin", "lib.a", "obj.o", "outdir", "pkg.tgz"}
Files == Targets \cup {"lib.c", "notes.txt"}

\* Recipe._target
target ==
    [r \in Recipes |->
        CASE r = "app" -> "app.bin"
          [] r = "lib" -> "lib.a"
          [] r = "obj" -> "obj.o"
          [] r = "dir" -> "outdir"
          [] r = "pkg" -> "pkg.tgz"
          [] OTHER -> NoFile]

\* Recipe.component_list
component_list ==
    [r \in Recipes |->
        CASE r = "app" -> <<"lib">>
          [] r = "gen" -> <<"app">>
          [] r = "pkg" -> <<"cfg">>
          [] OTHER -> <<>>]

\* the values of Recipe.component_map, in insertion order
component_map ==
    [r \in Recipes |-> IF r = "app" THEN <<"obj">> ELSE <<>>]

\* Recipe._deps
deps ==
    [r \in Recipes |-> IF r = "app" THEN <<"dir", "cfg">> ELSE <<>>]

\* Recipe._parent
parent ==
    [r \in Recipes |-> IF r = "gen" THEN "app" ELSE NoRecipe]

\* Recipe.setup
setup ==
    [r \in Recipes |-> IF r = "gen" THEN "cfg" ELSE NoRecipe]

\* Recipe.static_files
static_files ==
    [r \in Recipes |-> IF r = "lib" THEN <<"lib.c">> ELSE <<>>]

\* Recipe.cleanup_files
cleanup_files ==
    [r \in Recipes |-> IF r = "dir" THEN <<"notes.txt">> ELSE <<>>]

\* Recipe.memoize
memoize == [r \in Recipes |-> r = "cfg"]

\* Recipe.keep
keep == [r \in Recipes |-> r = "dir"]

has_target(r) == target[r] # NoFile

has_parent(r) == parent[r] # NoRecipe

\* Recipe.components(): positional components, then the mapped ones
components(r) == component_list[r] \o component_map[r]

has_components(r) == components(r) # <<>>

\* Recipe.dependencies(): own _deps (those given at construction, then
\* those added), then the parent's dependencies()
RECURSIVE dependencies(_)
dependencies(r) ==
    deps[r] \o added[r] \o (IF has_parent(r) THEN dependencies(parent[r]) ELSE <<>>)

Range(s) == {s[i] : i \in DOMAIN s}

----------------------------------------------------------------------------
(* The filesystem.  A path is absent, a regular file, a symlink to an      *)
(* existing file, or a dangling symlink.  mtime is what stat() reports     *)
(* (stat follows symlinks).                                                *)

FileKinds == {"absent", "file", "symlink", "dangling"}

Absent == [kind |-> "absent", mtime |-> 0]

\* Path.exists() in filesystem F: follows symlinks
exists(F, f) == F[f].kind \in {"file", "symlink"}

\* Path.is_symlink()
is_symlink(F, f) == F[f].kind \in {"symlink", "dangling"}

----------------------------------------------------------------------------
(* Outcomes of the staleness functions: a value, or the exception raised.  *)
(* The functions are evaluated on a filesystem F.                          *)

TdMax == 1000       \* timedelta.max
TdMin == -1000      \* timedelta.min

Ok(v) == [exc |-> "", v |-> v]
Raise(e) == [exc |-> e, v |-> 0]
OkB(b) == [exc |-> "", b |-> b]
RaiseB(e) == [exc |-> e, b |-> FALSE]

MinOf(S) == CHOOSE x \in S : \A y \in S : x <= y
MaxOf(S) == CHOOSE x \in S : \A y \in S : x >= y

\* min(...) over outcomes evaluated in order: the first exception propagates,
\* and min() of an empty sequence raises ValueError
MinAges(rs) ==
    LET bad == {i \in DOMAIN rs : rs[i].exc # ""}
    IN  IF bad # {} THEN rs[MinOf(bad)]
        ELSE IF rs = <<>> THEN Raise("ValueError")
        ELSE Ok(MinOf({rs[i].v : i \in DOMAIN rs}))

\* max(a, b) of two outcomes, a evaluated first
MaxAge(a, b) ==
    IF a.exc # "" THEN a
    ELSE IF b.exc # "" THEN b
    ELSE Ok(MaxOf({a.v, b.v}))

\* ref - datetime.fromtimestamp(f.stat().st_mtime)
FileAge(F, f, ref) ==
    IF exists(F, f) THEN Ok(ref - F[f].mtime) ELSE Raise("FileNotFoundError")

\* Recipe.age
age(F, r, ref) ==
    IF has_target(r) /\ exists(F, target[r]) THEN Ok(ref - F[target[r]].mtime)
    ELSE IF has_target(r) /\ is_symlink(F, target[r]) THEN Ok(TdMin)
    ELSE Ok(TdMin)

\* faulty variant: the static files are not looked at
static_files_age_none(F, r, ref) == Ok(TdMax)

\* faulty variant: every input file of the build counts as a static file
static_files_age_glob(F, r, ref) ==
    IF static_files[r] = <<>> THEN Ok(TdMax)
    ELSE MinAges([i \in 1..2 |-> FileAge(F, <<"lib.c", "notes.txt">>[i], ref)])

\* Recipe.static_files_age
static_files_age(F, r, ref) ==
    IF static_files[r] = <<>> THEN Ok(TdMax)
    ELSE MinAges([i \in DOMAIN static_files[r] |->
                    FileAge(F, static_files[r][i], ref)])

RECURSIVE inputs_age(_, _, _)

\* Recipe.components_age
components_age(F, r, ref) ==
    IF ~has_components(r) THEN Ok(TdMax)
    ELSE MinAges([i \in DOMAIN components(r) |->
                    MaxAge(age(F, components(r)[i], ref),
                           inputs_age(F, components(r)[i], ref))])

\* Recipe.dependencies_age: guarded by has_components(), not by the
\* presence of dependencies
dependencies_age(F, r, ref) ==
    IF ~has_components(r) THEN Ok(TdMax)
    ELSE MinAges([i \in DOMAIN dependencies(r) |->
                    MaxAge(age(F, dependencies(r)[i], ref),
                           inputs_age(F, dependencies(r)[i], ref))])

\* Recipe.inputs_age
inputs_age(F, r, ref) ==
    MinAges(<<static_files_age(F, r, ref), components_age(F, r, ref),
              dependencies_age(F, r, ref)>>)

\* Recipe.outdated
outdated(F, r, ref) ==
    IF has_target(r) /\ is_symlink(F, target[r]) THEN OkB(FALSE)
    ELSE LET a == age(F, r, ref)
             i == inputs_age(F, r, ref)
         IN  IF i.exc # "" THEN RaiseB(i.exc) ELSE OkB(a.v > i.v)

----------------------------------------------------------------------------
(* Values and exceptions.                                                  *)
(* A value is None, a plain value (the n-th result computed by a recipe's  *)
(* make()) or a path in one of two spellings of the same file (0: as the   *)
(* recipe declares it, 1: another spelling, e.g. absolute).  The text of   *)
(* an exception is the set of message fragments str(e) contains; chain     *)
(* adds the fragments of its __cause__ chain.                              *)

None == [k |-> "none", a |-> "", n |-> 0]
Val(r, n) == [k |-> "val", a |-> r, n |-> n]
PathV(f, sp) == [k |-> "path", a |-> f, n |-> sp]

\* Path.resolve(): every spelling of a file resolves to one path
resolve(p) == [p EXCEPT !.n = 0]

NoExc == [type |-> "", text |-> {}, chain |-> {}]
Exc(t, text) == [type |-> t, text |-> text, chain |-> text]

\* raise X from e
From(x, e) == [x EXCEPT !.chain = x.text \cup e.chain]

\* Recipe.Format.sigil
sigil(r) == <<"sigil", r>>

\* faulty variant: the message holds the sigil only
BuildError_bare(r, e) == From(Exc("BuildError", {sigil(r)}), e)

\* BuildError(recipe, str(e)) from e: "[sigil] " + str(e)
BuildError(r, e) == From(Exc("BuildError", {sigil(r)} \cup e.text), e)

\* faulty variant: only one of the nested exceptions is reported
CompositeError_first(excs, msg) ==
    LET e == CHOOSE x \in excs : TRUE
    IN  Exc("CompositeError", {<<"msg", msg>>, <<"class", e.type>>} \cup e.text)

\* faulty variant: the failures are reported as one plain error
CompositeError_plain(excs, msg) == Exc("RuntimeError", {<<"msg", msg>>})

\* CompositeError(exceptions, msg): msg, then the class name and the text of
\* every nested exception
CompositeError(excs, msg) ==
    Exc("CompositeError",
        {<<"msg", msg>>} \cup {<<"class", e.type>> : e \in excs}
            \cup UNION {e.text : e \in excs})

\* Recipe.error(msg): RuntimeError(msg)
error(msg) == Exc("RuntimeError", {<<"msg", msg>>})

\* the outcome of a call: a returned value or a raised exception
Returned(v) == [ok |-> TRUE, val |-> v, exc |-> NoExc]
Raised(e) == [ok |-> FALSE, val |-> None, exc |-> e]
NoRet == [ok |-> FALSE, val |-> None, exc |-> NoExc]

\* faulty variant: a symlinked target is treated like any other target
done_no_symlink(F, S, r) ==
    IF has_target(r)
    THEN IF ~exists(F, target[r]) THEN OkB(FALSE)
         ELSE LET o == outdated(F, r, now)
              IN  IF o.exc # "" THEN RaiseB(o.exc) ELSE OkB(~o.b)
    ELSE OkB(S[r] # None)

\* Recipe.done on filesystem F with saved results S
done(F, S, r) ==
    IF has_target(r)
    THEN IF is_symlink(F, target[r]) THEN OkB(TRUE)
         ELSE IF ~exists(F, target[r]) THEN OkB(FALSE)
         ELSE LET o == outdated(F, r, now)
              IN  IF o.exc # "" THEN RaiseB(o.exc) ELSE OkB(~o.b)
    ELSE OkB(S[r] # None)

\* Recipe.result: the exception it raises, or NoExc
result_exc(r) ==
    LET d == done(fs, saved_result, r)
    IN  IF d.exc # "" THEN Exc(d.exc, {<<"raised", d.exc>>})
        ELSE IF d.b /\ has_target(r) THEN NoExc
        ELSE IF saved_result[r] = None
             THEN Exc("ValueError", {<<"msg", "Recipe result has not yet been recorded.">>})
             ELSE NoExc

\* Recipe.components_results: the first exception raised by a component's
\* result(), or NoExc
components_results(r) ==
    LET cs == components(r)
        bad == {i \in DOMAIN cs : result_exc(cs[i]) # NoExc}
    IN  IF bad = {} THEN NoExc ELSE result_exc(cs[MinOf(bad)])

----------------------------------------------------------------------------
(* Calls of Recipe.__call__.  A call is identified by its path from a      *)
(* top-level caller: <<k>> is the k-th top-level call, Append(id, j) the   *)
(* call of the j-th sibling made by call id in its current phase.          *)

Phases == {"setup", "deps", "comps"}

NoKids == [p \in Phases |-> {}]

NewFrame(r) ==
    [r |-> r, pc |-> "lock", ret |-> NoRet, i |-> 0, att |-> NoKids,
     fin |-> NoKids, bad |-> {}, made |-> FALSE, endp |-> "", fails |-> <<>>,
     out |-> "", ev |-> <<>>]

\* faulty variant: setup is not called
PhaseKids_nosetup(r, ph) ==
    CASE ph = "setup" -> <<>>
      [] ph = "deps" -> dependencies(r)
      [] ph = "comps" -> components(r)

\* the recipes a resolution calls in each phase, in call order
PhaseKids(r, ph) ==
    CASE ph = "setup" -> IF setup[r] = NoRecipe THEN <<>> ELSE <<setup[r]>>
      [] ph = "deps" -> dependencies(r)
      [] ph = "comps" -> components(r)

\* faulty variant: the components start right after setup
NextPhase_skip(ph) ==
    CASE ph = "setup" -> "comps"
      [] ph = "deps" -> "comps"
      [] ph = "comps" -> "make"

\* Recipe._resolve: make_dependencies, then make_components, then make
NextPhase(ph) ==
    CASE ph = "setup" -> "deps"
      [] ph = "deps" -> "comps"
      [] ph = "comps" -> "make"

\* faulty variant: sync is not looked at
Sequential_setup(r, ph) == ph = "setup"

\* setup is awaited directly; dependencies and components are awaited one
\* by one under sync and gathered otherwise
Sequential(r, ph) == ph = "setup" \/ sync[r]

Kids(F, id) ==
    {g \in DOMAIN F : Len(g) = Len(id) + 1 /\ SubSeq(g, 1, Len(id)) = id}

Without(F, ids) == [g \in DOMAIN F \ ids |-> F[g]]

\* the calls in flight after call id (frame fr, lock held) moves on to phase
\* ph: the first phase from ph on that has recipes to call starts their
\* calls; with none left, make() starts.  Recipe._resolve logs START when
\* make_dependencies has returned, before make_components
RECURSIVE Enter(_, _, _, _)
Enter(F, id, fr, ph) ==
    IF ph = "make"
    THEN [F EXCEPT ![id] = [fr EXCEPT !.pc = "make", !.i = 0, !.made = TRUE]]
    ELSE LET ks == PhaseKids(fr.r, ph)
             first == IF Sequential(fr.r, ph) THEN {1} ELSE DOMAIN ks
             fr0 == IF ph = "comps" THEN [fr EXCEPT !.ev = Append(@, "start")]
                    ELSE fr
         IN  IF ks = <<>> THEN Enter(F, id, fr0, NextPhase(ph))
             ELSE [g \in {Append(id, j) : j \in first} |-> NewFrame(ks[g[Len(g)]])]
                  @@ [F EXCEPT ![id] = [fr0 EXCEPT !.pc = ph, !.i = 0,
                                                    !.att[ph] = first]]

\* the side-effect counter once call id has moved on in G: entering make()
\* counts one execution
Counted(G, id) ==
    IF G[id].pc = "make" THEN [makes EXCEPT ![G[id].r] = @ + 1] ELSE makes

\* faulty variant: the failure is raised without a FAIL event
Fail_unlogged(fr, e, ph) ==
    [fr EXCEPT !.pc = "done", !.ret = Raised(BuildError(fr.r, e)), !.endp = ph]

\* the call ends: except Exception as e: log(FAIL, e); raise BuildError; the
\* FAIL event carries e
Fail(fr, e, ph) ==
    [fr EXCEPT !.pc = "done", !.ret = Raised(BuildError(fr.r, e)), !.endp = ph,
               !.fails = Append(@, e), !.ev = Append(@, "fail")]

\* faulty variant: the lock is never seen as held
locked_never(r) == FALSE

\* asyncio.Lock.locked() of Recipe.lock
locked(r) == lock[r]

\* faulty variant: only a file target is answered without resolving
cached_target_only(r) == has_target(r)

\* faulty variant: only a memoized result is answered without resolving
cached_memo_only(r) == memoize[r]

\* Recipe.__call__: a recipe that is done answers without resolving when it
\* has a target or is memoized
cached(r) == has_target(r) \/ memoize[r]

\* the value a done recipe answers with
cached_value(r) == IF has_target(r) THEN PathV(target[r], 0) ELSE saved_result[r]

\* the files whose state the staleness of r reads besides its own target:
\* its static files and, transitively, the targets and static files of its
\* components and dependencies
RECURSIVE InputFiles(_)
InputFiles(r) ==
    Range(static_files[r]) \cup
    UNION {({target[c]} \ {NoFile}) \cup InputFiles(c) :
             c \in Range(components(r)) \cup Range(dependencies(r))}

OwnFiles(r) == ({target[r]} \ {NoFile}) \cup InputFiles(r)

\* lastRet once call id has answered v (None: it raised)
Answer(id, v) == IF Len(id) = 1 THEN v ELSE lastRet

\* lastRet once the files in changed were modified from outside the calls
\* recorded in it
Forget(L, changed) ==
    IF root # NoRecipe /\ OwnFiles(root) \cap changed # {} THEN None ELSE L

----------------------------------------------------------------------------
(* The state of the other modules when they have been imported.            *)

Cmds == 1..NCmds

\* AsyncInjector(): no singleton resolved (0), the singleton's lock free, no
\* call of the provider, no require
NoInjector ==
    [pc |-> "none", singletons |-> 0, locked |-> FALSE, waiters |-> <<>>,
     calls |-> <<>>, raises |-> {}, suspends |-> FALSE, tasks |-> <<>>]

\* class Shell: max_jobs = 0, job_semaphore = asyncio.Semaphore(0); sems
\* holds the value of every Semaphore object made so far, job_semaphore is
\* the index of the current one; no call of run() yet
\* EventBus._current_bus = None (0); no session, no EventBus object, no
\* target registered with the engine; no ShellRecipe constructed; no
\* recipe made by the recipe decorator and no make() returned; no injector
\* constructed; no dependency added; no listener that raises; no call of
\* clean_components with failing removals; no AsyncInjector constructed; no
\* run() task; regs counts the calls of listen() and subscribe(), sent and
\* last record the calls of send()
Fresh ==
    /\ shell = [max_jobs |-> 0, job_semaphore |-> 1, sems |-> <<0>>,
                cmds |-> [c \in Cmds |-> [pc |-> "idle", sem |-> 0]]]
    /\ bus = [current |-> 0, open |-> <<>>, all |-> <<>>, regs |-> 0, sent |-> 0,
              last |-> [name |-> "", invoked |-> {}],
              loop |-> [pc |-> "off", bus |-> 0, framed |-> FALSE, disp |-> <<>>]]
    /\ eng = [targets |-> <<>>, inputs |-> <<>>, op |-> "", arg |-> <<>>,
              out |-> <<>>, n |-> 0, err |-> ""]
    /\ shr = [pc |-> "none", cmd |-> <<>>, kwargs |-> [secret |-> "", plain |-> ""],
              redacted |-> {}, expected_code |-> 0,
              has_target |-> FALSE, shown |-> <<>>, ran |-> <<>>,
              return_code |-> -1, exists |-> FALSE, saved_result |-> "None",
              events |-> <<>>, out |-> ""]
    /\ scn = [pc |-> "none", bound_args |-> [args |-> <<>>, kwargs |-> <<>>],
              s |-> [args |-> <<>>, kwargs |-> <<>>, arg_offsets |-> <<>>,
                     kwarg_keys |-> <<>>, paths |-> <<>>, types |-> <<>>],
              call |-> [args |-> <<>>, kwargs |-> <<>>], err |-> "",
              saved_result |-> <<>>]
    /\ inj = [pc |-> "none", dep_graph |-> <<>>, resources |-> <<>>,
              singletons |-> <<>>, runs |-> <<>>, gen |-> 0, ops |-> 0,
              last |-> [op |-> "", name |-> <<>>, err |-> ""]]
    /\ added = [r \in Recipes |-> <<>>]
    /\ raising = FALSE
    /\ cln = [pc |-> "none", r |-> NoRecipe, recursive |-> FALSE, denied |-> {},
              exc |-> NoExc, failed |-> <<>>, cleaned |-> {}, reported |-> {}]
    /\ ainj = NoInjector

----------------------------------------------------------------------------
(* The initial state: nothing built yet, input files present.              *)

Init ==
    /\ fs = [f \in Files |->
                IF f \in Targets THEN Absent ELSE [kind |-> "file", mtime |-> 0]]
    /\ now = 0
    /\ saved_result = [r \in Recipes |-> None]
    /\ lock = [r \in Recipes |-> FALSE]
    /\ active = {}
    /\ sync = [r \in Recipes |-> FALSE]
    /\ frames = <<>>
    /\ root = NoRecipe
    /\ round = 0
    /\ makes = [r \in Recipes |-> 0]
    /\ makes0 = [r \in Recipes |-> 0]
    /\ startDone = [r \in Recipes |-> FALSE]
    /\ lastRet = None
    /\ failed = FALSE
    /\ Fresh
    /\ odd = 0
    /\ env = 0

----------------------------------------------------------------------------
(* Recipe.__call__ up to its first suspension: take the lock, answer from  *)
(* the done-check or start resolving.                                      *)

Acquire(id) ==
    LET fr == frames[id]
        r == fr.r
        d == done(fs, saved_result, r)
    IN  /\ fr.pc = "lock"
        /\ UNCHANGED others
        /\ ~locked(r)
        /\ IF d.exc # ""
           THEN \* done() raises before the try block: the exception leaves
                \* the call as it is
                /\ frames' = [frames EXCEPT ![id] =
                                [fr EXCEPT !.pc = "done", !.endp = "check",
                                           !.ret = Raised(Exc(d.exc, {<<"raised", d.exc>>}))]]
                /\ lastRet' = Answer(id, None)
                /\ UNCHANGED <<lock, active, makes>>
           ELSE IF d.b /\ cached(r)
           THEN /\ frames' = [frames EXCEPT ![id] =
                                [fr EXCEPT !.pc = "done", !.endp = "cached",
                                           !.ret = Returned(cached_value(r))]]
                /\ lastRet' = Answer(id, cached_value(r))
                /\ UNCHANGED <<lock, active, makes>>
           ELSE LET G == Enter(frames, id, fr, "setup")
                IN  /\ frames' = G
                    /\ makes' = Counted(G, id)
                    /\ lock' = [lock EXCEPT ![r] = TRUE]
                    /\ active' = active \cup {r}
                    /\ UNCHANGED lastRet
        /\ UNCHANGED <<fs, now, saved_result, sync, root, round, makes0, startDone, odd, env>>

\* the resolution of call id in phase ph ends with exception e: FAIL is
\* logged, BuildError raised, the lock released
Failing(F, id, fr, e, ph) ==
    /\ frames' = [F EXCEPT ![id] = Fail(fr, e, ph)]
    /\ lock' = [lock EXCEPT ![fr.r] = FALSE]
    /\ active' = active \ {fr.r}
    /\ makes' = makes

\* the resolution of call id goes on after phase ph: components_results()
\* closes the component phase, then the next phase starts
Proceeding(F, id, fr, ph) ==
    LET ce == IF ph = "comps" THEN components_results(fr.r) ELSE NoExc
        G == Enter(F, id, fr, NextPhase(ph))
    IN  IF ce # NoExc THEN Failing(F, id, fr, ce, ph)
        ELSE /\ frames' = G
             /\ makes' = Counted(G, id)
             /\ UNCHANGED <<lock, active>>

\* make_dependencies / make_components without sync: asyncio.gather returns
\* once every sibling call has ended; the failures are raised together
Join(id) ==
    LET fr == frames[id]
        r == fr.r
        ph == fr.pc
        ks == Kids(frames, id)
        excs == {frames[g].ret.exc : g \in {k \in ks : ~frames[k].ret.ok}}
        fr1 == [fr EXCEPT !.fin[ph] = fr.att[ph], !.bad = fr.bad \cup excs]
        F1 == Without(frames, ks)
        msg == IF ph = "deps" THEN "Failed to make one or more dependencies."
               ELSE "Failed to make one or more components."
    IN  /\ ph \in Phases
        /\ ~Sequential(r, ph)
        /\ UNCHANGED others
        /\ \A g \in ks : frames[g].pc = "done"
        /\ IF excs # {}
           THEN Failing(F1, id, fr1, CompositeError(excs, msg), ph)
           ELSE Proceeding(F1, id, fr1, ph)
        /\ lastRet' = IF frames'[id].pc = "done" THEN Answer(id, None) ELSE lastRet
        /\ UNCHANGED <<fs, now, saved_result, sync, root, round, makes0, startDone, odd, env>>

\* await self.setup(), and make_dependencies / make_components under sync:
\* the sibling calls are awaited one after another and the first failure is
\* raised at once
Step(id) ==
    LET fr == frames[id]
        r == fr.r
        ph == fr.pc
        j == fr.i + 1
        g == Append(id, j)
        kids == PhaseKids(r, ph)
    IN  /\ ph \in Phases
        /\ Sequential(r, ph)
        /\ UNCHANGED others
        /\ g \in DOMAIN frames
        /\ frames[g].pc = "done"
        /\ LET k == frames[g]
               fr1 == [fr EXCEPT !.i = j, !.fin[ph] = @ \cup {j},
                                 !.bad = IF k.ret.ok THEN @ ELSE @ \cup {k.ret.exc}]
               F1 == Without(frames, {g})
               e == CASE ph = "setup" -> k.ret.exc
                      [] ph = "deps" ->
                            From(error("Failed to make a dependency."), k.ret.exc)
                      [] ph = "comps" ->
                            From(error("Failed to make component."), k.ret.exc)
           IN  IF ~k.ret.ok THEN Failing(F1, id, fr1, e, ph)
               ELSE IF j < Len(kids)
               THEN /\ frames' = (Append(id, j + 1) :> NewFrame(kids[j + 1]))
                                 @@ [F1 EXCEPT ![id] =
                                        [fr1 EXCEPT !.att[ph] = @ \cup {j + 1}]]
                    /\ UNCHANGED <<lock, active, makes>>
               ELSE Proceeding(F1, id, fr1, ph)
        /\ lastRet' = IF frames'[id].pc = "done" THEN Answer(id, None) ELSE lastRet
        /\ UNCHANGED <<fs, now, saved_result, sync, root, round, makes0, startDone, odd, env>>

\* faulty variant: the result is saved and done() is not asked again
record_result_unchecked(F, S, r, res) == [S |-> [S EXCEPT ![r] = res], e |-> NoExc]

\* the end of Recipe._resolve once the result passed the target guard: the
\* result is saved and done() asked again on filesystem F; if the recipe is
\* still not done the saved result is reset and an error raised.  Gives the
\* saved results afterwards and the exception raised, or NoExc
record_result(F, S, r, res) ==
    LET post == done(F, [S EXCEPT ![r] = res], r)
    IN  IF post.exc # ""
        THEN [S |-> [S EXCEPT ![r] = res], e |-> Exc(post.exc, {<<"raised", post.exc>>})]
        ELSE IF ~post.b
        THEN [S |-> [S EXCEPT ![r] = None],
              e |-> error("Recipe make() didn't complete successfully.")]
        ELSE [S |-> [S EXCEPT ![r] = res], e |-> NoExc]

\* what an execution of make() can do: raise; produce the target and return
\* its path in the declared or in another spelling; return the target path
\* without producing the file; produce the target but return another path;
\* return a plain value; return None, producing nothing
MakeOutcomes(r) ==
    IF has_target(r)
    THEN {"raise", "write", "write_alt", "nowrite", "stray", "none"}
    ELSE {"raise", "value", "none"}

\* the outcome of a make() that does what its recipe declares
Plain(r) == IF has_target(r) THEN "write" ELSE "value"

\* self.log(Events.SUCCESS) inside the try block of Recipe.__call__ after
\* _resolve ended with e0: EventBus.send calls the listeners at once, and
\* what a listener raises is caught like a failure of the resolution
log_success(e0) ==
    IF e0 = NoExc /\ raising
    THEN Exc("RuntimeError", {<<"msg", "listener failed">>})
    ELSE e0

\* make() returns or raises; Recipe._resolve checks the result against the
\* target, saves it and checks done(); Recipe.__call__ logs SUCCESS or FAIL
\* and releases the lock; the frame keeps what make() did in out
MakeEnd(id) ==
    LET fr == frames[id]
        r == fr.r
    IN  /\ fr.pc = "make"
        /\ UNCHANGED others
        /\ \E o \in MakeOutcomes(r) :
            LET writes == o \in {"write", "write_alt", "stray"}
                res == CASE o = "write" -> PathV(target[r], 0)
                         [] o = "write_alt" -> PathV(target[r], 1)
                         [] o = "nowrite" -> PathV(target[r], 0)
                         [] o = "stray" -> PathV("notes.txt", 0)
                         [] o = "value" -> Val(r, makes[r])
                         [] OTHER -> None
                guard ==
                    IF o = "raise" THEN Exc("RuntimeError", {<<"boom", r>>})
                    ELSE IF has_target(r) /\ res.k # "path"
                    THEN Exc("AssertionError",
                             {<<"msg", "Recipe declared a file target, but the result was not a string or Path object.">>})
                    ELSE IF has_target(r) /\ resolve(res) # resolve(PathV(target[r], 0))
                    THEN Exc("AssertionError",
                             {<<"msg", "Recipe declared a file target, but the result path differs">>})
                    ELSE NoExc
                F1 == IF writes
                      THEN [fs EXCEPT ![target[r]] =
                              [kind |-> IF is_symlink(fs, target[r])
                                        THEN "symlink" ELSE "file",
                               mtime |-> now]]
                      ELSE fs
            IN  /\ o # Plain(r) => odd < MaxOdd
                /\ odd' = IF o = Plain(r) THEN odd ELSE odd + 1
                /\ now' = now
                /\ fs' = F1
                /\ LET sv == record_result(F1, saved_result, r, res)
                       e0 == IF guard # NoExc THEN guard ELSE sv.e
                       e == log_success(e0)
                       fr1 == [fr EXCEPT !.out = o,
                                         !.ev = IF e0 = NoExc THEN Append(@, "success")
                                                ELSE @]
                   IN  /\ saved_result' = IF guard # NoExc THEN saved_result ELSE sv.S
                       /\ frames' = [frames EXCEPT ![id] =
                                        IF e # NoExc
                                        THEN Fail(fr1, e, IF e0 = NoExc THEN "log"
                                                          ELSE "make")
                                        ELSE [fr1 EXCEPT !.pc = "done", !.endp = "ok",
                                                         !.ret = Returned(res)]]
                       /\ lastRet' = IF Len(id) = 1
                                      THEN (IF e # NoExc THEN None ELSE res)
                                      ELSE lastRet
        /\ lock' = [lock EXCEPT ![r] = FALSE]
        /\ active' = active \ {r}
        /\ UNCHANGED <<sync, root, round, makes, makes0, startDone, env>>

---------------------------------------------------------------------------------------------------------------------------------------------------
(* The callers.  A session calls one recipe, its root: in a sequence of up *)
(* to MaxRounds single calls with outside operations in between (a recipe  *)
(* with a file target or a memoized one), or in one batch of up to         *)
(* NCallers concurrent calls (any recipe).                                 *)

Idle == DOMAIN frames = {}

\* an outside operation is performed between two calls
Outside ==
    /\ Idle
    /\ round > 0
    /\ env < MaxEnv
    /\ env' = env + 1

\* n callers call recipe r
Calling(r, n) ==
    /\ Idle
    /\ UNCHANGED others
    /\ frames' = [id \in {<<k>> : k \in 1..n} |-> NewFrame(r)]
    /\ root' = r
    /\ makes0' = makes
    /\ startDone' = [q \in Recipes |-> done(fs, saved_result, q) = OkB(TRUE)]
    /\ env' = 0
    /\ UNCHANGED <<fs, now, saved_result, lock, active, sync, makes, lastRet, odd>>

\* the recipes a session calls again and again: those whose done state
\* outlasts a call (a plain recipe is resolved anew by every call)
Roots == {r \in Recipes : has_target(r) \/ memoize[r]}

\* await r(): the next call of the session's root
StartRound ==
    /\ round < MaxRounds
    /\ round' = round + 1
    /\ \E r \in Roots :
            /\ root \in {NoRecipe, r}
            /\ Calling(r, 1)

\* await asyncio.gather(r(), ..., r()): the session's one batch of calls
StartBatch ==
    /\ round = 0
    /\ round' = 1
    /\ \E r \in Recipes, n \in 1..NCallers : Calling(r, n)

EndRound ==
    /\ ~Idle
    /\ \A id \in DOMAIN frames : Len(id) = 1 => frames[id].pc = "done"
    /\ frames' = <<>>
    /\ makes0' = makes
    /\ startDone' = [r \in Recipes |-> FALSE]
    /\ failed' = \E id \in DOMAIN frames : Len(id) = 1 /\ ~frames[id].ret.ok
    /\ UNCHANGED <<fs, now, saved_result, lock, active, sync, root, round, makes,
                   lastRet, odd, env, shell, bus, eng, shr, scn, inj, added,
                   raising, cln, ainj>>

----------------------------------------------------------------------------
(* Operations from outside the build: a file is modified, recipes are      *)
(* cleaned.                                                                *)

\* the files modified from outside: an input file, a component's target and
\* a file no recipe knows
Touched == {"lib.c", "obj.o", "notes.txt"}

\* the targets whose removal can be made to fail
Denied == {"app.bin", "lib.a", "obj.o"}

\* time passes and a file is written again: its mtime becomes the current
\* time
Touch(f) ==
    /\ Outside
    /\ UNCHANGED others
    /\ exists(fs, f)
    /\ now < MaxTime
    /\ now' = now + 1
    /\ fs' = [fs EXCEPT ![f].mtime = now']
    /\ lastRet' = Forget(lastRet, {f})
    /\ UNCHANGED <<saved_result, lock, active, sync, frames, root, round, makes,
                   makes0, startDone, odd>>

\* xeno.shell.remove_paths without as_user: paths that do not exist()
\* (dangling symlinks included) are skipped
RECURSIVE remove_paths(_, _)
remove_paths(F, paths) ==
    IF paths = <<>> THEN F
    ELSE LET f == Head(paths)
         IN  remove_paths(IF F[f].kind \in {"file", "symlink"}
                          THEN [F EXCEPT ![f] = Absent] ELSE F,
                          Tail(paths))

\* faulty variant: the saved result is dropped whatever the target
clean_resets(S, r) ==
    [fs |-> remove_paths(remove_paths(S.fs, cleanup_files[r]),
                         IF has_target(r) /\ ~keep[r] THEN <<target[r]>> ELSE <<>>),
     sr |-> [S.sr EXCEPT ![r] = None]]

\* Recipe.clean on the state S = [fs, sr]
clean(S, r) ==
    LET F1 == remove_paths(S.fs, cleanup_files[r])
    IN  IF \/ ~has_target(r)
           \/ F1[target[r]].kind = "absent"
           \/ keep[r]
        THEN [S EXCEPT !.fs = F1]
        ELSE [fs |-> remove_paths(F1, <<target[r]>>),
              sr |-> [S.sr EXCEPT ![r] = None]]

RECURSIVE CleanAll(_, _)
CleanAll(S, rs) ==
    IF rs = <<>> THEN S ELSE CleanAll(clean(S, Head(rs)), Tail(rs))

\* Recipe.clean_components on the state S: the components (and, when
\* recursive, the own _deps) are cleaned, then, when recursive, their
\* components in turn
RECURSIVE clean_components(_, _, _)
RECURSIVE CleanComponentsAll(_, _)
CleanComponentsAll(S, rs) ==
    IF rs = <<>> THEN S
    ELSE CleanComponentsAll(clean_components(S, Head(rs), TRUE), Tail(rs))

clean_components(S, r, recursive) ==
    LET recipes == IF recursive THEN components(r) \o deps[r] \o added[r]
                   ELSE components(r)
        S1 == CleanAll(S, recipes)
    IN  IF recursive THEN CleanComponentsAll(S1, recipes) ELSE S1

\* the recipes clean_components(recursive=True) reaches through components
\* alone: the components, their components, and so on
RECURSIVE transitive_components(_)
transitive_components(r) ==
    Range(components(r))
        \cup UNION {transitive_components(c) : c \in Range(components(r))}

\* cleaning recipe r at a depth: shallow is r.clean(); recursive is r.clean()
\* followed by r.clean_components(recursive=True)
cleanup(S, r, depth) ==
    IF depth = "shallow" THEN clean(S, r)
    ELSE clean_components(clean(S, r), r, TRUE)

Cleaned(S) ==
    /\ S # [fs |-> fs, sr |-> saved_result]
    /\ UNCHANGED others
    /\ fs' = S.fs
    /\ saved_result' = S.sr
    /\ lastRet' = Forget(lastRet, {f \in Files : S.fs[f] # fs[f]})
    /\ UNCHANGED <<now, lock, active, sync, frames, root, round, makes, makes0,
                   startDone, odd>>

\* root.clean()
Clean ==
    /\ Outside
    /\ Cleaned(clean([fs |-> fs, sr |-> saved_result], root))

\* root.clean_components(recursive)
CleanComponents(recursive) ==
    /\ Outside
    /\ Cleaned(clean_components([fs |-> fs, sr |-> saved_result], root, recursive))

----------------------------------------------------------------------------
\* no recipe in the resolution of a root has a setup recipe or is resolved
\* under sync: every sibling call is gathered (Join)
Next ==
    \/ StartRound
    \/ EndRound
    \/ \E id \in DOMAIN frames : Acquire(id)
    \/ \E id \in DOMAIN frames : Join(id)
    \/ \E id \in DOMAIN frames : MakeEnd(id)
    \/ \E f \in Touched : Touch(f)
    \/ Clean
    \/ \E rec \in BOOLEAN : CleanComponents(rec)

Spec == Init /\ [][Next]_vars

----------------------------------------------------------------------------
(* Concurrent callers: one batch of calls of a recipe nothing of which is  *)
(* built yet, with the parent resolving its siblings concurrently or under *)
(* sync.                                                                   *)

InitConc ==
    /\ fs = [f \in Files |->
                IF f \in Targets THEN Absent ELSE [kind |-> "file", mtime |-> 0]]
    /\ now = 0
    /\ saved_result = [r \in Recipes |-> None]
    /\ lock = [r \in Recipes |-> FALSE]
    /\ active = {}
    /\ sync \in {[r \in Recipes |-> r = "app" /\ b] : b \in BOOLEAN}
    /\ frames = <<>>
    /\ root = NoRecipe
    /\ round = 0
    /\ makes = [r \in Recipes |-> 0]
    /\ makes0 = [r \in Recipes |-> 0]
    /\ startDone = [r \in Recipes |-> FALSE]
    /\ lastRet = None
    /\ failed = FALSE
    /\ Fresh
    /\ odd = 0
    /\ env = 0

NextConc ==
    \/ StartBatch
    \/ \E id \in DOMAIN frames : Acquire(id)
    \/ \E id \in DOMAIN frames : Join(id)
    \/ \E id \in DOMAIN frames : Step(id)
    \/ \E id \in DOMAIN frames : MakeEnd(id)

SpecConc == InitConc /\ [][NextConc]_vars

----------------------------------------------------------------------------
(* Dependencies added after construction, which is how the relation of     *)
(* components and dependencies comes to hold a cycle: one dependency is    *)
(* added to a recipe without components, then one recipe is called once.   *)
(* A step of a call is taken whenever one can be: the event loop runs      *)
(* every task that is ready, and make() returns or raises.                 *)

\* r.add_dependency(dep): dep is appended to the _deps of r and, through
\* the same call on each of them, of the components of r.  The recipe
\* decorator's dep= does the same call through _inject_dependency, with an
\* argument of the recipe as dep: app with its component lib
add_dependency(r, dep) ==
    LET RECURSIVE add(_, _)
        add(A, rs) ==
            IF rs = <<>> THEN A
            ELSE add(add([A EXCEPT ![Head(rs)] = Append(@, dep)],
                         components(Head(rs))),
                     Tail(rs))
    IN  /\ Idle
        /\ round = 0
        /\ \A q \in Recipes : Len(added[q]) < MaxAdded
        /\ added' = add(added, <<r>>)
        /\ UNCHANGED <<fs, now, saved_result, lock, active, sync, frames, root, round,
                       makes, makes0, startDone, lastRet, failed, odd, env, shell,
                       bus, eng, shr, scn, inj, raising, cln, ainj>>

NextCyc ==
    \/ \E e \in {<<"lib", "lib">>, <<"obj", "app">>, <<"obj", "gen">>, <<"lib", "cfg">>,
                <<"app", "lib">>} :
            add_dependency(e[1], e[2])
    \/ \E r \in Recipes : round = 0 /\ round' = 1 /\ Calling(r, 1)
    \/ \E id \in DOMAIN frames : Acquire(id)
    \/ \E id \in DOMAIN frames : Join(id)
    \/ \E id \in DOMAIN frames : Step(id)
    \/ \E id \in DOMAIN frames : MakeEnd(id)

SpecCyc ==
    /\ InitConc
    /\ [][NextCyc]_vars
    /\ WF_vars(\E id \in DOMAIN frames :
                    Acquire(id) \/ Join(id) \/ Step(id) \/ MakeEnd(id))

----------------------------------------------------------------------------
(* Calls in a session whose bus has a listener.  Recipe.log sends every    *)
(* event to the bus of the session, and EventBus.send calls the listeners  *)
(* that are plain functions before it returns.                             *)

\* EventBus.get().listen(listener) before the first call, for a plain
\* function that raises when it is sent SUCCESS
listen_raising ==
    /\ Idle
    /\ round = 0
    /\ ~raising
    /\ raising' = TRUE
    /\ UNCHANGED <<fs, now, saved_result, lock, active, sync, frames, root, round,
                   makes, makes0, startDone, lastRet, failed, odd, env, shell,
                   bus, eng, shr, scn, inj, added, cln, ainj>>

NextLog ==
    \/ listen_raising
    \/ StartBatch
    \/ \E id \in DOMAIN frames : Acquire(id)
    \/ \E id \in DOMAIN frames : Join(id)
    \/ \E id \in DOMAIN frames : Step(id)
    \/ \E id \in DOMAIN frames : MakeEnd(id)

SpecLog == InitConc /\ [][NextLog]_vars

----------------------------------------------------------------------------
(* The staleness functions on their own: every state of the files of the   *)
(* build (the parent's target may also be a symlink), with a result saved  *)
(* for one of the recipes without target and none for the other, and files *)
(* being given any mtime.                                                  *)

FileStates ==
    {Absent} \cup {[kind |-> "file", mtime |-> t] : t \in 0..MaxTime}

LinkStates ==
    {[kind |-> "dangling", mtime |-> 0]}
        \cup {[kind |-> "symlink", mtime |-> t] : t \in 0..MaxTime}

InitAge ==
    /\ fs \in {F \in [Files -> FileStates \cup LinkStates] :
                /\ \A f \in Files \ {"app.bin"} : F[f] \in FileStates
                /\ F["notes.txt"] = [kind |-> "file", mtime |-> 0]
                /\ F["pkg.tgz"] = [kind |-> "file", mtime |-> 0]}
    /\ now = MaxTime
    /\ saved_result = [r \in Recipes |-> IF r = "gen" THEN Val("gen", 1) ELSE None]
    /\ lock = [r \in Recipes |-> FALSE]
    /\ active = {}
    /\ sync = [r \in Recipes |-> FALSE]
    /\ frames = <<>>
    /\ root = NoRecipe
    /\ round = 0
    /\ makes = [r \in Recipes |-> 0]
    /\ makes0 = [r \in Recipes |-> 0]
    /\ startDone = [r \in Recipes |-> FALSE]
    /\ lastRet = None
    /\ failed = FALSE
    /\ Fresh
    /\ odd = 0
    /\ env = 0

\* os.utime(f, (t, t)) on filesystem F
utime(F, f, t) == [F EXCEPT ![f].mtime = t]

\* the mtime of an existing file is set
Utime(f, t) ==
    /\ exists(fs, f)
    /\ UNCHANGED others
    /\ fs' = utime(fs, f, t)
    /\ UNCHANGED <<now, saved_result, lock, active, sync, frames, root, round, makes,
                   makes0, startDone, lastRet, odd, env>>

\* the files whose mtime is set from outside: the sources and the targets
\* of the build of app
NextAge == \E f \in Files \ {"pkg.tgz"}, t \in 0..MaxTime : Utime(f, t)

SpecAge == InitAge /\ [][NextAge]_vars

----------------------------------------------------------------------------
(* xeno.shell.Shell: the job semaphore around the external processes.      *)

\* Shell.set_max_jobs(n): a new Semaphore(n) takes the place of the current
\* one
set_max_jobs(n) ==
    /\ Len(shell.sems) <= MaxSets
    /\ shell' = [shell EXCEPT !.max_jobs = n,
                              !.sems = Append(@, n),
                              !.job_semaphore = Len(shell.sems) + 1]
    /\ UNCHANGED <<recipeVars, bus, eng, shr, scn, inj>>

\* Semaphore.locked(): no permit left, or a call already waits
sem_locked(k) ==
    \/ shell.sems[k] = 0
    \/ \E c \in Cmds : shell.cmds[c].pc = "wait" /\ shell.cmds[c].sem = k

\* Shell.run is called: async with self.job_semaphore enters the Semaphore
\* that is current now, at once when it is not locked; the process starts
run_call(c) ==
    LET k == shell.job_semaphore
    IN  /\ shell.cmds[c].pc = "idle"
        /\ shell' = IF sem_locked(k)
                    THEN [shell EXCEPT !.cmds[c] = [pc |-> "wait", sem |-> k]]
                    ELSE [shell EXCEPT !.cmds[c] = [pc |-> "running", sem |-> k],
                                       !.sems[k] = @ - 1]
        /\ UNCHANGED <<recipeVars, bus, eng, shr, scn, inj>>

\* a waiting call gets a permit of the Semaphore it entered; the process
\* starts
run_wake(c) ==
    LET k == shell.cmds[c].sem
    IN  /\ shell.cmds[c].pc = "wait"
        /\ shell.sems[k] > 0
        /\ shell' = [shell EXCEPT !.cmds[c].pc = "running", !.sems[k] = @ - 1]
        /\ UNCHANGED <<recipeVars, bus, eng, shr, scn, inj>>

\* the process has exited: run() leaves the async with block, which
\* releases the Semaphore it entered, and returns
run_return(c) ==
    LET k == shell.cmds[c].sem
    IN  /\ shell.cmds[c].pc = "running"
        /\ shell' = [shell EXCEPT !.cmds[c] = [pc |-> "idle", sem |-> 0],
                                  !.sems[k] = @ + 1]
        /\ UNCHANGED <<recipeVars, bus, eng, shr, scn, inj>>

NextShell ==
    \/ \E n \in 0..MaxJobs : set_max_jobs(n)
    \/ \E c \in Cmds : run_call(c)
    \/ \E c \in Cmds : run_wake(c)
    \/ \E c \in Cmds : run_return(c)

SpecShell == Init /\ [][NextShell]_vars

\* the event loop runs a call that can take a permit, and every process that
\* was started exits
SpecJobs ==
    /\ Init /\ [][NextShell]_vars
    /\ \A c \in Cmds : WF_vars(run_wake(c)) /\ WF_vars(run_return(c))

----------------------------------------------------------------------------
(* xeno.recipes.shell.ShellRecipe: a recipe that runs a command.  The      *)
(* command is the list "echo", "{secret}", "{plain}", given with the       *)
(* keyword arguments secret and plain and, for a recipe with a file        *)
(* target, target; a text is the sequence of its words.  The recipe has no *)
(* inputs, is neither interactive nor run as another user, and leaves      *)
(* result at its default.  Shell.set_max_jobs has been given a limit that  *)
(* leaves the call a permit.  shr.return_code is -1 for None.              *)

\* Shell.interpolate: str.format of every word of cmd with the parameters,
\* those named in redacted replaced by "<redacted>"; shlex.join puts the
\* words together
interpolate(cmd, params, redacted) ==
    [i \in DOMAIN cmd |->
        IF cmd[i].k = "lit" THEN cmd[i].s
        ELSE IF cmd[i].s \in redacted THEN "<redacted>"
        ELSE params[cmd[i].s]]

\* ShellRecipe.Format.start: interpolate is called with the command and the
\* keyword arguments held by the scanner, without redacted
start(R) == interpolate(R.cmd, R.kwargs, {})

\* faulty variant: the return code is not compared with the expected code
make_unchecked(R, returncode, wrote) ==
    [exc |-> "", res |-> IF R.has_target THEN "target" ELSE "code"]

\* ShellRecipe.make once Shell.run has returned returncode: the assertion
\* on the code, then _compute_result with result_spec None
make(R, returncode, wrote) ==
    IF returncode # R.expected_code
    THEN [exc |-> "AssertionError", res |-> "None"]
    ELSE [exc |-> "", res |-> IF R.has_target THEN "target" ELSE "code"]

\* ShellRecipe.__init__: cmd is the converted command, kwargs what
\* Recipe.scan([], kwargs) holds
ShellRecipe(secret, redacted, code, target_given) ==
    /\ shr.pc = "none"
    /\ shr' = [shr EXCEPT
                  !.pc = "new",
                  !.cmd = << [k |-> "lit", s |-> "echo"], [k |-> "param", s |-> "secret"],
                             [k |-> "param", s |-> "plain"] >>,
                  !.kwargs = [secret |-> secret, plain |-> "p"],
                  !.redacted = redacted,
                  !.expected_code = code,
                  !.has_target = target_given]
    /\ UNCHANGED <<recipeVars, shell, bus, eng, scn, inj>>

\* Recipe.__call__ of the new recipe up to the start of the process: not
\* done (no target file, no saved result); START is logged, the text shown
\* for it is fmt.start(recipe); ShellRecipe.make calls Shell.run, which
\* interpolates the command with the keyword arguments and starts it
shr_call ==
    /\ shr.pc = "new"
    /\ shr' = [shr EXCEPT !.pc = "running",
                          !.events = <<"start">>,
                          !.shown = start(shr),
                          !.ran = interpolate(shr.cmd, shr.kwargs, {})]
    /\ UNCHANGED <<recipeVars, shell, bus, eng, scn, inj>>

\* the process exits with returncode, having written the target file or
\* not: make() returns or raises, Recipe._resolve saves the result and
\* checks done(), Recipe.__call__ logs SUCCESS or FAIL
shr_exit(returncode, wrote) ==
    /\ shr.pc = "running"
    /\ LET m == make(shr, returncode, wrote)
           file == shr.has_target /\ wrote
           isdone == IF shr.has_target THEN file ELSE m.res # "None"
       IN  shr' = [shr EXCEPT
                     !.pc = "done",
                     !.return_code = returncode,
                     !.exists = file,
                     !.saved_result = IF m.exc = "" /\ isdone THEN m.res ELSE "None",
                     !.events = @ \o (IF m.exc # "" THEN <<"fail">>
                                      ELSE IF ~isdone THEN <<"error", "fail">>
                                      ELSE <<"success">>),
                     !.out = IF m.exc = "" /\ isdone THEN "ok" ELSE "BuildError"]
    /\ UNCHANGED <<recipeVars, shell, bus, eng, scn, inj>>

NextShr ==
    \/ \E secret \in {"s1", "s2"}, redacted \in SUBSET {"secret", "plain"},
          code \in {0, 1}, target_given \in BOOLEAN :
            ShellRecipe(secret, redacted, code, target_given)
    \/ shr_call
    \/ \E returncode \in 0..MaxCode, wrote \in BOOLEAN : shr_exit(returncode, wrote)

SpecShr == Init /\ [][NextShr]_vars

----------------------------------------------------------------------------
(* Recipe.Scanner, the recipes made by the recipe decorator (Lambda) and   *)
(* the expansion of what make() returns.  A value is [t, n, e]: a Recipe   *)
(* (t = "recipe", the n-th one), a Path, a plain value, or a list, tuple   *)
(* or set with the elements e.  The recipes among the values have neither  *)
(* target nor inputs and resolve to the plain value Res.  A dict is a      *)
(* sequence of [key, val] in insertion order.                              *)

\* what the call of a recipe among the values returns, and its result()
Res(v) == [t |-> "plain", n |-> 10 + v.n, e |-> <<>>]

\* the values passed as arguments and returned inside iterables
Values ==
    LET R1 == [t |-> "recipe", n |-> 1, e |-> <<>>]
        R2 == [t |-> "recipe", n |-> 2, e |-> <<>>]
        P == [t |-> "path", n |-> 0, e |-> <<>>]
        V == [t |-> "plain", n |-> 0, e |-> <<>>]
    IN  {R1, R2, P, V}
            \cup {[t |-> "list", n |-> 0, e |-> e] :
                    e \in {<<>>, <<R1, R2>>, <<P, P>>, <<R1, V>>}}
            \cup {[t |-> "tuple", n |-> 0, e |-> e] : e \in {<<R2>>}}
            \cup {[t |-> "set", n |-> 0, e |-> e] : e \in {<<R1>>}}

\* faulty variant: a sequence that holds a Recipe counts as RECIPE
scan_one_mixed(v) ==
    LET is_iterable == v.t \in {"list", "tuple"}
        arg == IF is_iterable THEN [v EXCEPT !.t = "list"] ELSE v
    IN  IF v.t = "recipe" \/ (is_iterable /\ \E i \in DOMAIN v.e : v.e[i].t = "recipe")
        THEN [arg |-> arg, type |-> "RECIPE"]
        ELSE IF v.t = "path" \/ (is_iterable /\ v.e # <<>>
                                    /\ \A i \in DOMAIN v.e : v.e[i].t = "path")
        THEN [arg |-> arg, type |-> "PATH"]
        ELSE [arg |-> arg, type |-> "NORMAL"]

\* Recipe.Scanner._scan_one: the argument as it is kept, and its ParamType;
\* is_iterable holds of lists, tuples and generators, and [*arg] is a list
scan_one(v) ==
    LET is_iterable == v.t \in {"list", "tuple"}
        arg == IF is_iterable THEN [v EXCEPT !.t = "list"] ELSE v
        all(t) == v.e # <<>> /\ \A i \in DOMAIN v.e : v.e[i].t = t
    IN  IF v.t = "recipe" THEN [arg |-> v, type |-> "RECIPE"]
        ELSE IF is_iterable /\ all("recipe") THEN [arg |-> arg, type |-> "RECIPE"]
        ELSE IF is_iterable /\ all("path") THEN [arg |-> arg, type |-> "PATH"]
        ELSE IF v.t = "path" THEN [arg |-> arg, type |-> "PATH"]
        ELSE [arg |-> arg, type |-> "NORMAL"]

\* Recipe.Scanner.scan_params: the scanner after clear() and the scan of
\* every positional and keyword argument; types holds what scan returned
scan_params(pos, kw) ==
    LET all == pos \o [i \in DOMAIN kw |-> kw[i].val]
        RECURSIVE paths(_)
        paths(vs) ==
            IF vs = <<>> THEN <<>>
            ELSE LET o == scan_one(Head(vs))
                 IN  (IF o.type # "PATH" THEN <<>>
                      ELSE IF o.arg.t = "list" THEN o.arg.e ELSE <<o.arg>>)
                     \o paths(Tail(vs))
    IN  [args |-> [i \in DOMAIN pos |-> scan_one(pos[i]).arg],
         kwargs |-> [i \in DOMAIN kw |->
                        [key |-> kw[i].key, val |-> scan_one(kw[i].val).arg]],
         arg_offsets |-> SelectSeq([i \in DOMAIN pos |-> i],
                                   LAMBDA i : scan_one(pos[i]).type = "RECIPE"),
         kwarg_keys |-> LET ks == SelectSeq(kw, LAMBDA p : scan_one(p.val).type = "RECIPE")
                        IN  [i \in DOMAIN ks |-> ks[i].key],
         paths |-> paths(all),
         types |-> [i \in DOMAIN all |-> scan_one(all[i]).type]]

\* Recipe.Scanner.args of scanner S: with RESULTS the value at a recorded
\* offset gives way to its result(), a list to the results of its recipes
args(S, pass_mode) ==
    LET results(v) ==
            IF v.t = "list" THEN [v EXCEPT !.e = [i \in DOMAIN v.e |-> Res(v.e[i])]]
            ELSE Res(v)
    IN  IF pass_mode = "NORMAL" THEN S.args
        ELSE [i \in DOMAIN S.args |->
                IF \E j \in DOMAIN S.arg_offsets : S.arg_offsets[j] = i
                THEN results(S.args[i]) ELSE S.args[i]]

\* Recipe.Scanner.kwargs of scanner S: the same for the recorded keys
kwargs(S, pass_mode) ==
    LET results(v) ==
            IF v.t = "list" THEN [v EXCEPT !.e = [i \in DOMAIN v.e |-> Res(v.e[i])]]
            ELSE Res(v)
    IN  IF pass_mode = "NORMAL" THEN S.kwargs
        ELSE [i \in DOMAIN S.kwargs |->
                IF \E j \in DOMAIN S.kwarg_keys : S.kwarg_keys[j] = S.kwargs[i].key
                THEN [S.kwargs[i] EXCEPT !.val = results(@)] ELSE S.kwargs[i]]

\* a function decorated with @recipe is called with pos and kw: Lambda(f,
\* [*args], {**kwargs}) binds the arguments and scans them
Lambda(pos, kw) ==
    /\ scn.pc = "none"
    /\ scn' = [scn EXCEPT !.pc = "lambda",
                          !.bound_args = [args |-> pos, kwargs |-> kw],
                          !.s = scan_params(pos, kw)]
    /\ UNCHANGED <<recipeVars, shell, bus, eng, shr, inj>>

\* the Lambda is resolved: make_components calls every element of
\* component_list and every recipe in the values of component_map;
\* Lambda.make then calls f with args(RESULTS) and kwargs(RESULTS)
Lambda_resolve ==
    /\ scn.pc = "lambda"
    /\ LET S == scn.s
           \* Scanner.component_list()
           listed == [j \in DOMAIN S.arg_offsets |-> S.args[S.arg_offsets[j]]]
       IN  IF \E j \in DOMAIN listed : listed[j].t # "recipe"
           THEN scn' = [scn EXCEPT !.pc = "called", !.err = "TypeError"]
           ELSE scn' = [scn EXCEPT !.pc = "called",
                                   !.call = [args |-> args(S, "RESULTS"),
                                             kwargs |-> kwargs(S, "RESULTS")]]
    /\ UNCHANGED <<recipeVars, shell, bus, eng, shr, inj>>

\* Recipe._resolve after make() returned the iterable result:
\* scanner.scan_params(*result)
resolve_iterable(result) ==
    /\ scn.pc = "none"
    /\ scn' = [scn EXCEPT !.pc = "expanding", !.s = scan_params(result, <<>>)]
    /\ UNCHANGED <<recipeVars, shell, bus, eng, shr, inj>>

\* while scanner.has_recipes(): await scanner.gather_all(): the recipes
\* among the arguments are called, every other argument is passed on as it
\* is, and the results are scanned
gather_all ==
    /\ scn.pc = "expanding"
    /\ scn.s.arg_offsets # <<>> \/ scn.s.kwarg_keys # <<>>
    /\ scn' = [scn EXCEPT !.s =
                  scan_params([i \in DOMAIN scn.s.args |->
                                  IF scn.s.args[i].t = "recipe"
                                  THEN Res(scn.s.args[i]) ELSE scn.s.args[i]],
                              <<>>)]
    /\ UNCHANGED <<recipeVars, shell, bus, eng, shr, inj>>

\* the loop is left: result = scanner.args(RESULTS); self.saved_result =
\* result
save_result ==
    /\ scn.pc = "expanding"
    /\ scn.s.arg_offsets = <<>> /\ scn.s.kwarg_keys = <<>>
    /\ scn' = [scn EXCEPT !.pc = "saved", !.saved_result = args(scn.s, "RESULTS")]
    /\ UNCHANGED <<recipeVars, shell, bus, eng, shr, inj>>

NextScan ==
    \/ \E pos \in UNION {[1..n -> Values] : n \in 0..MaxArgs},
          kw \in {<<>>} \cup {<<[key |-> "k", val |-> v]>> :
                                v \in {u \in Values :
                                         \/ u.t = "plain"
                                         \/ u.n = 2
                                         \/ Len(u.e) = 2 /\ u.e[2].t # "plain"}} :
            Lambda(pos, kw)
    \/ Lambda_resolve
    \/ \E result \in UNION {[1..n -> Values] : n \in 0..MaxArgs} : resolve_iterable(result)
    \/ gather_all
    \/ save_result

SpecScan == Init /\ [][NextScan]_vars /\ WF_vars(gather_all) /\ WF_vars(save_result)

----------------------------------------------------------------------------
(* xeno.sync_injector.SyncInjector.  The injector is constructed from one  *)
(* module that provides a, b and c, a and c as singletons, each depending  *)
(* on any of the three.  A resource name is the sequence of its parts      *)
(* (Namespace.join appends); a value is [n, g, d]: computed for resource n *)
(* by its g-th provider from the values d of its dependencies.             *)
(* inj.resources maps the bound names to [singleton, g, deps],             *)
(* inj.singletons is the dict of that name, inj.runs counts the calls of   *)
(* the provider of a singleton since the name was last bound or unbound.   *)

\* faulty variant: only a resource that names itself is found
check_for_cycles_self(G) == \E resource \in DOMAIN G : resource \in G[resource]

\* AbstractInjector.check_for_cycles on the dependency graph G: does it
\* raise CircularDependencyError
check_for_cycles(G) ==
    LET RECURSIVE visit(_, _)
        visit(resource, visited) ==
            \E dep \in (IF resource \in DOMAIN G THEN G[resource] ELSE {}) :
                dep \in visited \cup {resource} \/ visit(dep, visited \cup {resource})
    IN  \E resource \in DOMAIN G : visit(resource, {})

\* SyncInjector._require(name) on injector I: the injector afterwards, the
\* value returned and the error raised; a provider requires its parameters
\* in order, and the wrapper of a singleton stores what the provider
\* returned
RECURSIVE require_(_, _)
require_(I, name) ==
    LET none == [n |-> <<>>, g |-> 0, d |-> <<>>]
        RECURSIVE resolve_dependencies(_, _, _)
        \* SyncInjector._resolve_dependencies
        resolve_dependencies(J, ps, vals) ==
            IF ps = <<>> THEN [I |-> J, val |-> vals, err |-> ""]
            ELSE LET o == require_(J, Head(ps))
                 IN  IF o.err # ""
                     THEN [I |-> o.I, val |-> <<>>, err |-> "MissingDependencyError"]
                     ELSE resolve_dependencies(o.I, Tail(ps), Append(vals, o.val))
    IN  IF name \notin DOMAIN I.resources
        THEN [I |-> I, val |-> none, err |-> "MissingResourceError"]
        ELSE IF name \in DOMAIN I.singletons
        THEN [I |-> I, val |-> I.singletons[name], err |-> ""]
        ELSE LET res == I.resources[name]
                 o == resolve_dependencies(I, res.deps, <<>>)
                 v == [n |-> name, g |-> res.g, d |-> o.val]
             IN  IF o.err # "" THEN [I |-> o.I, val |-> none, err |-> o.err]
                 ELSE IF res.singleton
                 THEN [I |-> [o.I EXCEPT !.singletons = (name :> v) @@ @,
                                         !.runs[name] = @ + 1],
                       val |-> v, err |-> ""]
                 ELSE [I |-> o.I, val |-> v, err |-> ""]

\* SyncInjector(module): every provider of the module is bound, then
\* check_for_cycles; G gives the parameters of the three providers
SyncInjector(G) ==
    /\ inj.pc = "none"
    /\ LET names == {<<x>> : x \in DOMAIN G}
           graph == [nm \in names |-> {<<x>> : x \in G[nm[1]]}]
       IN  inj' = [inj EXCEPT
                     !.pc = IF check_for_cycles(graph) THEN "error" ELSE "ready",
                     !.dep_graph = graph,
                     !.resources =
                        [nm \in names |->
                            [singleton |-> nm[1] \in {"a", "c"}, g |-> 0,
                             deps |-> SelectSeq(<< <<"a">>, <<"b">>, <<"c">> >>,
                                                LAMBDA d : d \in graph[nm])]],
                     !.runs = [nm \in names |-> 0],
                     !.last = [op |-> "init", name |-> <<>>,
                               err |-> IF check_for_cycles(graph)
                                       THEN "CircularDependencyError" ELSE ""]]
    /\ UNCHANGED <<recipeVars, shell, bus, eng, shr, scn>>

\* injector.require(name)
require(name) ==
    /\ inj.pc = "ready"
    /\ LET o == require_(inj, name)
       IN  inj' = [o.I EXCEPT !.last = [op |-> "require", name |-> name, err |-> o.err]]
    /\ UNCHANGED <<recipeVars, shell, bus, eng, shr, scn>>

\* injector.provide(name, value, is_singleton, namespace) with a plain
\* value: singletons[name] is deleted, then the wrapper that returns the
\* value is bound under Namespace.join(namespace, name); _get_aliases
\* asserts that the namespace exists
provide(name, is_singleton, namespace) ==
    /\ inj.pc = "ready"
    /\ inj.ops < MaxOps
    /\ LET full == namespace \o name
           dropped == [nm \in DOMAIN inj.singletons \ {name} |-> inj.singletons[nm]]
           known == \E nm \in DOMAIN inj.resources :
                        Len(nm) > Len(namespace) /\ SubSeq(nm, 1, Len(namespace)) = namespace
       IN  IF namespace # <<>> /\ ~known
           THEN inj' = [inj EXCEPT !.singletons = dropped, !.ops = @ + 1,
                                   !.last = [op |-> "provide", name |-> full,
                                             err |-> "AssertionError"]]
           ELSE inj' = [inj EXCEPT
                          !.singletons = dropped,
                          !.gen = @ + 1,
                          !.ops = @ + 1,
                          !.resources = (full :> [singleton |-> is_singleton,
                                                  g |-> inj.gen + 1, deps |-> <<>>]) @@ @,
                          !.dep_graph = (full :> {}) @@ @,
                          !.runs = (full :> 0) @@ @,
                          !.last = [op |-> "provide", name |-> full, err |-> ""]]
    /\ UNCHANGED <<recipeVars, shell, bus, eng, shr, scn>>

\* injector.unbind_singleton(resource_name, unbind_all)
unbind_singleton(resource_name, unbind_all) ==
    /\ inj.pc = "ready"
    /\ inj.ops < MaxOps
    /\ IF unbind_all
       THEN inj' = [inj EXCEPT !.singletons = <<>>, !.ops = @ + 1,
                               !.runs = [nm \in DOMAIN @ |-> 0],
                               !.last = [op |-> "unbind", name |-> <<>>, err |-> ""]]
       ELSE IF resource_name \notin DOMAIN inj.resources
       THEN inj' = [inj EXCEPT !.ops = @ + 1,
                               !.last = [op |-> "unbind", name |-> resource_name,
                                         err |-> "MissingResourceError"]]
       ELSE IF ~inj.resources[resource_name].singleton
       THEN inj' = [inj EXCEPT !.ops = @ + 1,
                               !.last = [op |-> "unbind", name |-> resource_name,
                                         err |-> "InvalidResourceError"]]
       ELSE inj' = [inj EXCEPT
                      !.singletons = [nm \in DOMAIN @ \ {resource_name} |-> @[nm]],
                      !.ops = @ + 1,
                      !.runs[resource_name] = 0,
                      !.last = [op |-> "unbind", name |-> resource_name, err |-> ""]]
    /\ UNCHANGED <<recipeVars, shell, bus, eng, shr, scn>>

NextInj ==
    \/ \E G \in [{"a", "b", "c"} -> SUBSET {"a", "b", "c"}] : SyncInjector(G)
    \/ \E name \in {<<"a">>, <<"b">>, <<"c">>, <<"ns", "a">>} : require(name)
    \/ \E name \in {<<"a">>, <<"b">>, <<"c">>, <<"ns", "a">>}, is_singleton \in BOOLEAN :
            provide(name, is_singleton, <<>>)
    \/ \E name \in {<<"a">>, <<"b">>}, is_singleton \in BOOLEAN :
            provide(name, is_singleton, <<"ns">>)
    \/ \E name \in {<<"a">>, <<"b">>, <<"c">>, <<"d">>} : unbind_singleton(name, FALSE)
    \/ unbind_singleton(<<>>, TRUE)

SpecInj == Init /\ [][NextInj]_vars

----------------------------------------------------------------------------
(* xeno.events.EventBus.  The listeners are callables that return and do   *)
(* not call the bus themselves; the bus is reached through EventBus.get(). *)

\* inspect.iscoroutinefunction(listener)
is_async(l) == l \in {"a1", "a2"}

\* the callables passed to listen(), and to subscribe() with the event name
Globals == {"s1", "a1"}
Subs == {<<"x", "s2">>, <<"x", "a2">>}

\* the names of the events sent
Names == {"x", "y"}

\* EventBus.__init__
NewBus ==
    [shutdown_flag |-> FALSE, sync_listeners |-> {}, async_listeners |-> {},
     sync_subs |-> {}, async_subs |-> {}, queue |-> <<>>]

\* EventBus._sync_listeners_for_event on bus object B
sync_listeners_for_event(B, name) ==
    B.sync_listeners \cup {p[2] : p \in {q \in B.sync_subs : q[1] = name}}

\* faulty variant: the subscribers of the event name are left out
async_listeners_global(B, name) == B.async_listeners

\* EventBus._async_listeners_for_event on bus object B
async_listeners_for_event(B, name) ==
    B.async_listeners \cup {p[2] : p \in {q \in B.async_subs : q[1] = name}}

\* faulty variant: the queue is left as it is
shutdown_undrained(B) ==
    [B EXCEPT !.shutdown_flag = TRUE, !.sync_listeners = {}, !.sync_subs = {},
              !.async_listeners = {}, !.async_subs = {}]

\* EventBus.shutdown on bus object B
shutdown(B) ==
    [B EXCEPT !.shutdown_flag = TRUE, !.sync_listeners = {}, !.sync_subs = {},
              !.async_listeners = {}, !.async_subs = {}, !.queue = <<>>]

\* faulty variant: the event sent last is taken
get_nowait_last(q) == [event |-> q[Len(q)], rest |-> SubSeq(q, 1, Len(q) - 1)]

\* Queue.get_nowait on a queue that is not empty
get_nowait(q) == [event |-> Head(q), rest |-> Tail(q)]

\* with EventBus.session(): _Session.__init__ and __enter__
session_enter ==
    /\ Len(bus.all) < MaxSessions
    /\ bus' = [bus EXCEPT !.all = Append(@, NewBus),
                          !.open = Append(@, Len(bus.all) + 1),
                          !.current = Len(bus.all) + 1]
    /\ UNCHANGED <<recipeVars, shell, eng, shr, scn, inj>>

\* the with block of the innermost session is left: _Session.__exit__
session_exit ==
    /\ bus.open # <<>>
    /\ LET b == bus.open[Len(bus.open)]
       IN  bus' = [bus EXCEPT !.current = 0,
                              !.open = SubSeq(@, 1, Len(@) - 1),
                              !.all[b] = shutdown(@)]
    /\ UNCHANGED <<recipeVars, shell, eng, shr, scn, inj>>

\* EventBus.get().listen(l)
listen(l) ==
    /\ bus.current # 0
    /\ bus.regs < MaxRegs
    /\ bus' = IF is_async(l)
              THEN [bus EXCEPT !.all[bus.current].async_listeners = @ \cup {l},
                               !.regs = @ + 1]
              ELSE [bus EXCEPT !.all[bus.current].sync_listeners = @ \cup {l},
                               !.regs = @ + 1]
    /\ UNCHANGED <<recipeVars, shell, eng, shr, scn, inj>>

\* EventBus.get().unlisten(l)
unlisten(l) ==
    /\ bus.current # 0
    /\ bus' = [bus EXCEPT !.all[bus.current].sync_listeners = @ \ {l},
                          !.all[bus.current].async_listeners = @ \ {l}]
    /\ UNCHANGED <<recipeVars, shell, eng, shr, scn, inj>>

\* EventBus.get().subscribe(name, l)
subscribe(name, l) ==
    /\ bus.current # 0
    /\ bus.regs < MaxRegs
    /\ bus' = IF is_async(l)
              THEN [bus EXCEPT !.all[bus.current].async_subs = @ \cup {<<name, l>>},
                               !.regs = @ + 1]
              ELSE [bus EXCEPT !.all[bus.current].sync_subs = @ \cup {<<name, l>>},
                               !.regs = @ + 1]
    /\ UNCHANGED <<recipeVars, shell, eng, shr, scn, inj>>

\* EventBus.get().unsubscribe(name, l)
unsubscribe(name, l) ==
    /\ bus.current # 0
    /\ bus' = [bus EXCEPT !.all[bus.current].sync_subs = @ \ {<<name, l>>},
                          !.all[bus.current].async_subs = @ \ {<<name, l>>}]
    /\ UNCHANGED <<recipeVars, shell, eng, shr, scn, inj>>

\* EventBus.get().send(Event(name)): the event is queued when an
\* asynchronous listener matches it, then the synchronous listeners that
\* match it are called
send(name) ==
    /\ bus.current # 0
    /\ bus.sent < MaxSent
    /\ LET B == bus.all[bus.current]
           e == [name |-> name, n |-> bus.sent + 1]
       IN  bus' = [bus EXCEPT
                    !.sent = @ + 1,
                    !.all[bus.current].queue =
                        IF async_listeners_for_event(B, name) # {}
                        THEN Append(@, e) ELSE @,
                    !.last = [name |-> name,
                              invoked |-> sync_listeners_for_event(B, name)]]
    /\ UNCHANGED <<recipeVars, shell, eng, shr, scn, inj>>

\* EventBus.get().run() is started as a task
run ==
    /\ bus.current # 0
    /\ bus.loop.pc \in {"off", "ended"}
    /\ bus' = [bus EXCEPT !.loop.pc = "top", !.loop.bus = bus.current,
                          !.loop.framed = FALSE]
    /\ UNCHANGED <<recipeVars, shell, eng, shr, scn, inj>>

\* run(): the loop condition; one event is taken from the queue, if there
\* is one, and dispatched to the asynchronous listeners
run_event ==
    LET b == bus.loop.bus
        q == bus.all[b].queue
    IN  /\ bus.loop.pc = "top"
        /\ bus' = IF bus.all[b].shutdown_flag
                  THEN [bus EXCEPT !.loop.pc = "ended"]
                  ELSE IF q = <<>>
                  THEN [bus EXCEPT !.loop.pc = "frame", !.loop.framed = FALSE]
                  ELSE [bus EXCEPT !.loop.pc = "frame", !.loop.framed = FALSE,
                                   !.all[b].queue = get_nowait(q).rest,
                                   !.loop.disp = Append(@, get_nowait(q).event.n)]
        /\ UNCHANGED <<recipeVars, shell, eng, shr, scn, inj>>

\* run(): _dispatch_timers, then _dispatch_frame_event
run_frame ==
    /\ bus.loop.pc = "frame"
    /\ bus' = [bus EXCEPT !.loop.pc = "sleep", !.loop.framed = TRUE]
    /\ UNCHANGED <<recipeVars, shell, eng, shr, scn, inj>>

\* run(): await asyncio.sleep(0) returns
run_sleep ==
    /\ bus.loop.pc = "sleep"
    /\ bus' = [bus EXCEPT !.loop.pc = "top"]
    /\ UNCHANGED <<recipeVars, shell, eng, shr, scn, inj>>

\* the steps of the run() task
Loop == run_event \/ run_frame \/ run_sleep

NextBus ==
    \/ session_enter
    \/ session_exit
    \/ \E l \in Globals : listen(l)
    \/ \E l \in Globals : unlisten(l)
    \/ \E p \in Subs : subscribe(p[1], p[2])
    \/ \E p \in Subs : unsubscribe(p[1], p[2])
    \/ \E name \in Names : send(name)

SpecBus == Init /\ [][NextBus]_vars

\* sessions in which a run() task dispatches the events sent to the
\* asynchronous listeners
NextRun ==
    \/ session_enter
    \/ session_exit
    \/ \E l \in Globals : is_async(l) /\ listen(l)
    \/ \E p \in Subs : is_async(p[2]) /\ subscribe(p[1], p[2])
    \/ \E name \in Names : send(name)
    \/ run
    \/ run_event
    \/ run_frame
    \/ run_sleep

\* the run() task is scheduled again and again by the event loop
SpecRun == Init /\ [][NextRun]_vars /\ WF_vars(Loop)

----------------------------------------------------------------------------
(* xeno.build: the targets registered with an engine and the requests      *)
(* resolved against them.  A name is the sequence of its characters.       *)
(* Every recipe is the recipe of a target, named after it, and none is     *)
(* hidden; a target takes as inputs targets later in TaskNames.            *)

TaskNames == << <<"a", "t">>, <<"b", "t">>, <<"c">> >>

Unknown == <<"z">>

Patterns == { <<"*", "t">>, <<"*">>, <<"?", "t">>, <<"c", "*">>, <<"z", "*">> }

\* fnmatch: * matches any run of characters, ? one character
RECURSIVE fnmatch(_, _)
fnmatch(name, pat) ==
    IF pat = <<>> THEN name = <<>>
    ELSE IF Head(pat) = "*"
    THEN fnmatch(name, Tail(pat)) \/ (name # <<>> /\ fnmatch(Tail(name), pat))
    ELSE /\ name # <<>>
         /\ Head(pat) \in {"?", Head(name)}
         /\ fnmatch(Tail(name), Tail(pat))

\* dict.update on the keys of a dict: a key that is new goes to the end
RECURSIVE update(_, _)
update(keys, more) ==
    IF more = <<>> THEN keys
    ELSE update(IF \E i \in DOMAIN keys : keys[i] = Head(more)
                THEN keys ELSE Append(keys, Head(more)),
                Tail(more))

\* BuildEngine._map_dependencies: the keys of the dict it returns
RECURSIVE map_dependencies(_, _)
RECURSIVE map_inputs(_, _, _)
map_inputs(E, keys, ins) ==
    IF ins = <<>> THEN keys
    ELSE map_inputs(E, update(keys, map_dependencies(E, Head(ins))), Tail(ins))

map_dependencies(E, name) == map_inputs(E, <<name>>, E.inputs[name])

\* BuildEngine.load_targetable_recipe_map: the keys of recipe_map, after the
\* targets in targets were loaded
RECURSIVE load_targetable_recipe_map(_, _)
load_targetable_recipe_map(E, targets) ==
    IF targets = <<>> THEN <<>>
    ELSE update(load_targetable_recipe_map(E, SubSeq(targets, 1, Len(targets) - 1)),
                map_dependencies(E, targets[Len(targets)]))

\* BuildEngine._load_targets for one requested target: the recipes yielded,
\* or ValueError
load_targets(E, t) ==
    IF \E i \in DOMAIN E.targets : E.targets[i] = t
    THEN [out |-> <<t>>, err |-> ""]
    ELSE LET matching == SelectSeq(load_targetable_recipe_map(E, E.targets),
                                   LAMBDA k : fnmatch(k, t))
         IN  IF matching # <<>> THEN [out |-> matching, err |-> ""]
             ELSE [out |-> <<>>, err |-> "ValueError"]

\* faulty variant: a name asked for twice is counted once
query_distinct(E, names) ==
    Cardinality({names[i] : i \in {j \in DOMAIN names :
                    \A k \in DOMAIN E.targets : E.targets[k] # names[j]}})

\* the query mode of the engine on the names of a comma-separated list: how
\* many of them are not registered targets
query(E, names) ==
    Cardinality({i \in DOMAIN names :
                    \A k \in DOMAIN E.targets : E.targets[k] # names[i]})

\* @target: the function named TaskNames[i] is registered; its parameters
\* name the targets it takes as inputs
target_registered(i) ==
    /\ \A k \in DOMAIN eng.targets : eng.targets[k] # TaskNames[i]
    /\ \E later \in SUBSET {j \in DOMAIN TaskNames : j > i} :
            eng' = [eng EXCEPT
                      !.targets = Append(@, TaskNames[i]),
                      !.inputs = (TaskNames[i] :>
                                    SelectSeq(TaskNames,
                                              LAMBDA nm : \E j \in later : TaskNames[j] = nm))
                                 @@ @,
                      !.op = "", !.arg = <<>>, !.out = <<>>, !.n = 0, !.err = ""]
    /\ UNCHANGED <<recipeVars, shell, bus, shr, scn, inj>>

\* every input named by a registered target is registered
Complete ==
    \A k \in DOMAIN eng.targets :
        \A j \in DOMAIN eng.inputs[eng.targets[k]] :
            \E m \in DOMAIN eng.targets : eng.targets[m] = eng.inputs[eng.targets[k]][j]

\* BuildEngine.create([t]): list(self._load_targets([t]))
create(t) ==
    /\ eng.targets # <<>>
    /\ Complete
    /\ LET r == load_targets(eng, t)
       IN  eng' = [eng EXCEPT !.op = "create", !.arg = <<t>>, !.out = r.out,
                              !.n = 0, !.err = r.err]
    /\ UNCHANGED <<recipeVars, shell, bus, shr, scn, inj>>

\* Engine.build("-Q", names): the query mode
build_query(names) ==
    /\ eng' = [eng EXCEPT !.op = "query", !.arg = names, !.out = <<>>,
                          !.n = query(eng, names), !.err = ""]
    /\ UNCHANGED <<recipeVars, shell, bus, shr, scn, inj>>

\* the lists of names a query asks for
Queries ==
    UNION {[1..k -> Range(TaskNames) \cup {Unknown}] : k \in 1..MaxNames}

NextEngine ==
    \/ \E i \in DOMAIN TaskNames : target_registered(i)
    \/ \E t \in Patterns \cup Range(TaskNames) : create(t)
    \/ \E names \in Queries : build_query(names)

SpecEngine == Init /\ [][NextEngine]_vars

----------------------------------------------------------------------------
(* Properties of concurrent callers (SpecConc).                            *)

\* the top-level calls in flight
Tops == {id \in DOMAIN frames : Len(id) = 1}

\* two results are the same value, or paths that resolve to the same file
SameResult(a, b) ==
    IF a.k = "path" /\ b.k = "path" THEN resolve(a) = resolve(b) ELSE a = b

\* a batch of at least two callers of the root, all of which have returned
BatchReturned ==
    /\ Cardinality(Tops) >= 2
    /\ \A id \in Tops : frames[id].pc = "done" /\ frames[id].ret.ok

ExactlyOnce ==
    /\ makes[root] = makes0[root] + 1
    /\ \A a, b \in Tops : SameResult(frames[a].ret.val, frames[b].ret.val)

\* C1, as stated: for every recipe R (file target, memoized, or neither) that
\* is not done, N >= 2 concurrent callers of R() that return have executed
\* R.make() exactly once in total and all return the same result.
C1_AnyRecipe ==
    (BatchReturned /\ ~startDone[root]) => ExactlyOnce

\* C1, amended: for every recipe R with a file target or memoize set that is
\* not done, N >= 2 concurrent callers of R() that all return have executed
\* R.make() exactly once in total and all return the same result (for a file
\* target: paths resolving to the target).
C1_TargetOrMemoized ==
    (BatchReturned /\ ~startDone[root] /\ (has_target(root) \/ memoize[root]))
        => ExactlyOnce

\* two callers of the file-target recipe lib have returned, one from its own
\* resolution and one answered from the done-check
C1_Witness ==
    /\ root = "lib"
    /\ BatchReturned
    /\ \E a, b \in Tops : frames[a].endp = "ok" /\ frames[b].endp = "cached"

\* the calls of recipe r inside the lock-protected resolution
Resolving(r) ==
    {id \in DOMAIN frames : frames[id].r = r /\ frames[id].pc \in Phases \cup {"make"}}

\* C2: for every recipe R, at any moment at most one call of R() is inside
\* the lock-protected resolution (setup, dependencies, components, make()),
\* and R's lock is held exactly while one is.
C2_OneResolution ==
    \A r \in Recipes :
        /\ Cardinality(Resolving(r)) <= 1
        /\ lock[r] <=> Resolving(r) # {}

\* one call of a recipe is in make() while another call of it waits for the lock
C2_Witness ==
    \E a, b \in DOMAIN frames :
        /\ frames[a].r = frames[b].r
        /\ frames[a].pc = "make"
        /\ frames[b].pc = "lock"

\* the siblings a resolution of r calls in phase ph
Siblings(r, ph) == DOMAIN PhaseKids(r, ph)

\* C9: within one resolution, every ordering dependency has finished before
\* any component is started, every component has finished before make() is
\* started, and make() is not started when a dependency or component failed.
C9_PhaseOrder ==
    \A id \in DOMAIN frames :
        LET fr == frames[id]
        IN  /\ fr.att["comps"] # {} =>
                /\ fr.fin["deps"] = Siblings(fr.r, "deps")
                /\ fr.bad = {} \/ fr.pc \in {"comps", "done"}
            /\ fr.pc = "comps" => fr.fin["deps"] = Siblings(fr.r, "deps")
            /\ fr.made =>
                /\ fr.fin["deps"] = Siblings(fr.r, "deps")
                /\ fr.fin["comps"] = Siblings(fr.r, "comps")
                /\ fr.bad = {}

\* app is in make() after both its dependencies and both its components
C9_Witness ==
    \E id \in DOMAIN frames :
        /\ frames[id].r = "app"
        /\ frames[id].pc = "make"
        /\ frames[id].fin["deps"] = {1, 2}
        /\ frames[id].fin["comps"] = {1, 2}

\* the resolutions that ended with a failure among their dependencies or
\* components
FailedIn(id) ==
    /\ frames[id].pc = "done"
    /\ frames[id].endp \in {"deps", "comps"}
    /\ frames[id].bad # {}

\* every sibling of the phase was attempted and ended, and the text of the
\* raised error holds the text of every failure
AllCollected(fr) ==
    /\ fr.att[fr.endp] = Siblings(fr.r, fr.endp)
    /\ fr.fin[fr.endp] = Siblings(fr.r, fr.endp)
    /\ \A e \in fr.bad : e.text \subseteq fr.ret.exc.text

\* C10, as stated: concurrently or under sync, every sibling is attempted,
\* and the raised error reports every failure.
C10_NeverFailFast ==
    \A id \in DOMAIN frames : FailedIn(id) => AllCollected(frames[id])

\* C10, amended: without sync every sibling is attempted and the raised
\* error reports every failure; under sync the siblings are resolved in
\* order up to the first failure, no later sibling is attempted, and the
\* raised error has that one failure as its cause.
C10_Collected ==
    \A id \in DOMAIN frames :
        LET fr == frames[id]
        IN  FailedIn(id) =>
                IF ~sync[fr.r] THEN AllCollected(fr)
                ELSE /\ fr.att[fr.endp] = 1..Cardinality(fr.att[fr.endp])
                     /\ fr.fin[fr.endp] = fr.att[fr.endp]
                     /\ Cardinality(fr.bad) = 1
                     /\ \A e \in fr.bad : /\ e.chain \subseteq fr.ret.exc.chain
                                          /\ ~(e.text \subseteq fr.ret.exc.text)

\* without sync, both dependencies of app failed and app's error was raised
C10_Witness ==
    \E id \in DOMAIN frames :
        /\ FailedIn(id)
        /\ ~sync[frames[id].r]
        /\ frames[id].endp = "deps"
        /\ Cardinality(frames[id].bad) = 2

----------------------------------------------------------------------------
(* Properties of a session of calls with outside operations (Spec).        *)

\* the session's call in flight has returned
TopReturned ==
    /\ Tops # {}
    /\ \A id \in Tops : frames[id].pc = "done" /\ frames[id].ret.ok

\* the step in which the call id of recipe r ends
Ends(id, r) ==
    /\ id \in DOMAIN frames
    /\ frames[id].r = r
    /\ frames[id].pc # "done"
    /\ id \in DOMAIN frames'
    /\ frames'[id].pc = "done"

\* C3: a file-target recipe R whose call returned is called again with no
\* input changed: the second call returns the target path the first one
\* returned (the same file after resolve()), and make() is not executed
\* during the second call.
C3_Idempotent ==
    [][\A r \in Recipes :
          (/\ root = r
           /\ has_target(r)
           /\ lastRet # None
           /\ Ends(<<1>>, r))
          => /\ frames'[<<1>>].ret.ok
             /\ SameResult(frames'[<<1>>].ret.val, lastRet)
             /\ resolve(frames'[<<1>>].ret.val) = PathV(target[r], 0)
             /\ makes' = makes0]_vars

\* the second call of lib in a row was answered from the done-check
C3_Witness ==
    /\ root = "lib"
    /\ round = 2
    /\ TopReturned
    /\ lastRet # None
    /\ frames[<<1>>].endp = "cached"
    /\ makes["lib"] = 1
    /\ fs["lib.c"].mtime = 0

\* the file-target recipes with static input files
WithStatic == {r \in Recipes : has_target(r) /\ static_files[r] # <<>>}

\* C5: for a file-target recipe with static input files: when a build of it
\* has returned, done() is true and outdated() false, and make() was executed
\* (once) if it was not done before; whenever a static input file is newer
\* than the target, done() is false and outdated() true.
C5_StaticCycle ==
    \A r \in WithStatic :
        LET d == done(fs, saved_result, r)
            o == outdated(fs, r, now)
        IN  /\ (root = r /\ TopReturned) =>
                /\ d = OkB(TRUE)
                /\ o = OkB(FALSE)
                /\ ~startDone[r] => makes[r] = makes0[r] + 1
            /\ (/\ fs[target[r]].kind = "file"
                /\ \A f \in Range(static_files[r]) : exists(fs, f)
                /\ \E f \in Range(static_files[r]) :
                        fs[f].mtime > fs[target[r]].mtime)
               => d = OkB(FALSE) /\ o = OkB(TRUE)

\* lib was built, lib.c was modified, and lib was built again
C5_Witness ==
    /\ root = "lib"
    /\ round = 2
    /\ odd = 0
    /\ TopReturned
    /\ ~startDone["lib"]
    /\ makes["lib"] = 2
    /\ fs["lib.c"].mtime > 0
    /\ done(fs, saved_result, "lib") = OkB(TRUE)

\* C8: once a memoized recipe without target has a saved result, every later
\* step (calls, clean(), clean_components()) leaves the saved result as it
\* is and the recipe done, make() is not executed again, and every call of it
\* that ends returns the saved result.
C8_MemoizedStays ==
    [][\A r \in Recipes :
          (memoize[r] /\ ~has_target(r) /\ saved_result[r] # None)
          => /\ saved_result'[r] = saved_result[r]
             /\ makes'[r] = makes[r]
             /\ done(fs', saved_result', r) = OkB(TRUE)
             /\ \A id \in DOMAIN frames :
                    Ends(id, r) => frames'[id].ret = Returned(saved_result[r])]_vars

\* app was built and cleaned and is being built again: the call of cfg was answered with the result saved during the first build
C8_Witness ==
    /\ root = "app"
    /\ round = 2
    /\ odd = 0
    /\ makes["app"] = 1
    /\ fs["app.bin"].kind = "absent"
    /\ makes["cfg"] = 1
    /\ \E id \in DOMAIN frames :
            /\ frames[id].r = "cfg"
            /\ frames[id].endp = "cached"
            /\ frames[id].ret = Returned(saved_result["cfg"])

----------------------------------------------------------------------------
(* Properties of the staleness functions (SpecAge).                        *)

\* C4, as stated: for a file-target recipe P with a file-target component C,
\* both targets (and all input files of P) existing: when C's target is
\* newer than P's target, P.outdated(now) is true and P.done() is false.
C4_ComponentNewer ==
    \A p \in Recipes :
        \A c \in Range(components(p)) :
            (/\ has_target(p)
             /\ has_target(c)
             /\ \A f \in OwnFiles(p) : fs[f].kind = "file"
             /\ fs[target[c]].mtime > fs[target[p]].mtime)
            => /\ outdated(fs, p, now) = OkB(TRUE)
               /\ done(fs, saved_result, p) = OkB(FALSE)

\* C6: setting the mtime of an existing file that is neither the recipe's
\* own target, nor one of its static files, nor the target or a static file
\* of one of its transitive components or dependencies leaves the recipe's
\* outdated() and done() as they were.
C6_Unrelated ==
    \A r \in Recipes :
        LET o == outdated(fs, r, now)
            d == done(fs, saved_result, r)
        IN  \A f \in Files \ OwnFiles(r) :
                exists(fs, f) =>
                    \A t \in 0..MaxTime :
                        /\ outdated(utime(fs, f, t), r, now) = o
                        /\ done(utime(fs, f, t), saved_result, r) = d

\* the mtime of notes.txt was set while lib is done and app is outdated
C6_Witness ==
    /\ fs["notes.txt"].mtime = MaxTime
    /\ done(fs, saved_result, "lib") = OkB(TRUE)
    /\ outdated(fs, "app", now) = OkB(TRUE)

\* C7: done() is true for a recipe with a target exactly when the target is
\* a symlink, or exists and outdated() is false; for a recipe without target
\* exactly when a result is saved.
C7_DoneIff ==
    \A r \in Recipes :
        done(fs, saved_result, r) = OkB(TRUE)
        <=> IF has_target(r)
            THEN \/ is_symlink(fs, target[r])
                 \/ /\ exists(fs, target[r])
                    /\ outdated(fs, r, now) = OkB(FALSE)
            ELSE saved_result[r] # None

\* every case at once: a dangling symlink, a fresh target, a missing target,
\* a saved result and none
C7_Witness ==
    /\ fs["app.bin"].kind = "dangling"
    /\ done(fs, saved_result, "app") = OkB(TRUE)
    /\ fs["lib.a"].kind = "file"
    /\ done(fs, saved_result, "lib") = OkB(TRUE)
    /\ fs["obj.o"].kind = "absent"
    /\ done(fs, saved_result, "obj") = OkB(FALSE)
    /\ done(fs, saved_result, "gen") = OkB(TRUE)
    /\ done(fs, saved_result, "cfg") = OkB(FALSE)

----------------------------------------------------------------------------
\* C11: when several components of a parent fail with distinct exceptions
\* during one concurrent resolution, the call of the parent raises a single
\* error whose message holds the message of every failed component.
C11_AllMessages ==
    \A id \in DOMAIN frames :
        LET fr == frames[id]
        IN  (/\ fr.pc = "done"
             /\ fr.endp = "comps"
             /\ ~sync[fr.r]
             /\ Cardinality(fr.bad) > 1)
                => /\ ~fr.ret.ok
                   /\ fr.ret.exc.type = "BuildError"
                   /\ \A e \in fr.bad : e.text \subseteq fr.ret.exc.text

\* both components of app failed, each in its own make(), and app's call
\* has raised
C11_Witness ==
    \E id \in DOMAIN frames :
        /\ frames[id].r = "app"
        /\ frames[id].pc = "done"
        /\ frames[id].endp = "comps"
        /\ ~sync["app"]
        /\ \E a, b \in frames[id].bad :
                /\ <<"boom", "lib">> \in a.text
                /\ <<"boom", "obj">> \in b.text

----------------------------------------------------------------------------
\* C12: an exception raised while a call of R resolves it (in its setup, its
\* dependencies, its components, make(), the target guard or the done-check
\* after make()) leaves the call as a BuildError whose message holds R's
\* sigil and the message of the cause, and the call has sent exactly one FAIL
\* event, which carries the cause; a call that ends otherwise sent none.
C12_Wrapped ==
    \A id \in DOMAIN frames :
        LET fr == frames[id]
        IN  fr.pc = "done" =>
                IF fr.endp \in Phases \cup {"make"}
                THEN /\ ~fr.ret.ok
                     /\ fr.ret.exc.type = "BuildError"
                     /\ sigil(fr.r) \in fr.ret.exc.text
                     /\ Len(fr.fails) = 1
                     /\ fr.fails[1].text \subseteq fr.ret.exc.text
                     /\ fr.fails[1].chain \subseteq fr.ret.exc.chain
                ELSE fr.fails = <<>>

\* a call of a recipe with a target ended on the target guard: make()
\* returned another path than the target
C12_Witness ==
    \E id \in DOMAIN frames :
        /\ frames[id].pc = "done"
        /\ frames[id].endp = "make"
        /\ Len(frames[id].fails) = 1
        /\ frames[id].fails[1].type = "AssertionError"
        /\ frames[id].ret.exc.type = "BuildError"

----------------------------------------------------------------------------
\* C13, as stated: after a call of the root ended with an error, the next
\* call finds the lock free and resolves the recipe again; it never answers
\* from the done-check.
C13_Retry ==
    (failed /\ <<1>> \in DOMAIN frames) =>
        /\ frames[<<1>>].pc = "lock" => ~lock[root]
        /\ frames[<<1>>].pc = "done" => frames[<<1>>].endp # "cached"

----------------------------------------------------------------------------
\* C18, as stated: cleaning a parent at shallow depth removes the parent's
\* own target and leaves the target of every component as it is; cleaning
\* it at recursive depth removes the parent's target and the targets of all
\* its transitive components; at either depth the target of a keep=True
\* recipe is left as it is.
C18_Depths ==
    LET S == [fs |-> fs, sr |-> saved_result]
    IN  \A p \in Recipes :
            has_components(p) =>
                LET sh == cleanup(S, p, "shallow").fs
                    rc == cleanup(S, p, "recursive").fs
                    tc == {c \in transitive_components(p) : has_target(c)}
                IN  /\ (has_target(p) /\ ~keep[p]) =>
                            /\ sh[target[p]] = Absent
                            /\ rc[target[p]] = Absent
                    /\ \A c \in tc : sh[target[c]] = fs[target[c]]
                    /\ \A c \in tc : ~keep[c] => rc[target[c]] = Absent
                    /\ \A k \in Recipes :
                            (has_target(k) /\ keep[k]) =>
                                /\ sh[target[k]] = fs[target[k]]
                                /\ rc[target[k]] = fs[target[k]]

----------------------------------------------------------------------------
\* the processes running through Shell.run in shell state sh
running(sh) == {c \in Cmds : sh.cmds[c].pc = "running"}

\* C14, as stated, for the moments a process is started: whatever was called
\* before, set_max_jobs while commands are running included, a process
\* started through Shell.run leaves at most max_jobs processes running.
C14_Bounded ==
    [][\A c \in Cmds :
          (c \notin running(shell) /\ c \in running(shell'))
              => Cardinality(running(shell')) <= shell'.max_jobs]_vars

----------------------------------------------------------------------------
\* C15: EventBus.send(e) calls every synchronous listener that matches e
\* (the global ones and the subscribers of e.name) before it returns, and
\* appends e to the queue exactly when at least one asynchronous listener
\* (global or subscribed to e.name) matches e at the time of the call.
C15_Send ==
    [][bus'.sent = bus.sent + 1 =>
          LET B == bus.all[bus.current]
              name == bus'.last.name
              syncs == B.sync_listeners
                          \cup {l \in {"s1", "s2"} : <<name, l>> \in B.sync_subs}
              asyncs == B.async_listeners
                          \cup {l \in {"a1", "a2"} : <<name, l>> \in B.async_subs}
          IN  /\ bus'.last.invoked = syncs
              /\ bus'.all[bus.current].queue =
                    IF asyncs # {}
                    THEN Append(B.queue, [name |-> name, n |-> bus'.sent])
                    ELSE B.queue]_vars

\* an event named x was sent with s1 listening and s2 subscribed to x: both
\* were called, and the event was not queued
C15_Witness ==
    /\ bus.sent = 1
    /\ bus.last = [name |-> "x", invoked |-> {"s1", "s2"}]
    /\ bus.current # 0
    /\ bus.all[bus.current].queue = <<>>

----------------------------------------------------------------------------
\* the run() task is in its loop
Looping == bus.loop.pc \in {"top", "frame", "sleep"}

\* C16: while run() loops on a bus that is not shut down, every event in its
\* queue is eventually dispatched to the asynchronous listeners, the events
\* are dispatched in the order they were sent, and every iteration
\* dispatches a FRAME event before it yields; once the bus is shut down,
\* run() ends.
C16_Dispatch ==
    /\ [](\A i, j \in DOMAIN bus.loop.disp :
              i < j => bus.loop.disp[i] < bus.loop.disp[j])
    /\ [](bus.loop.pc = "sleep" => bus.loop.framed)
    /\ \A n \in 1..MaxSent :
          (Looping /\ \E i \in DOMAIN bus.all[bus.loop.bus].queue :
                            bus.all[bus.loop.bus].queue[i].n = n)
            ~> \/ \E i \in DOMAIN bus.loop.disp : bus.loop.disp[i] = n
               \/ bus.loop.bus # 0 /\ bus.all[bus.loop.bus].shutdown_flag
    /\ (Looping /\ bus.all[bus.loop.bus].shutdown_flag) ~> bus.loop.pc = "ended"

\* two events were queued and run() has dispatched both, the first one
\* first
C16_Witness ==
    /\ Looping
    /\ bus.loop.disp = <<1, 2>>

----------------------------------------------------------------------------
\* C17: EventBus.get() returns a bus only while a session is entered and
\* not yet exited, and raises ValueError when no session is; the bus of a
\* session that was exited has its shutdown flag set, no listeners, no
\* subscriptions and an empty queue; the bus of a session that is entered
\* holds nothing of the sessions before it.
C17_Sessions ==
    /\ [](/\ bus.current # 0 => \E i \in DOMAIN bus.open : bus.open[i] = bus.current
          /\ bus.open = <<>> => bus.current = 0
          /\ \A b \in DOMAIN bus.all :
                (\A i \in DOMAIN bus.open : bus.open[i] # b)
                    => /\ bus.all[b].shutdown_flag
                       /\ bus.all[b].sync_listeners = {}
                       /\ bus.all[b].async_listeners = {}
                       /\ bus.all[b].sync_subs = {}
                       /\ bus.all[b].async_subs = {}
                       /\ bus.all[b].queue = <<>>)
    /\ [][Len(bus'.open) > Len(bus.open) =>
            /\ bus'.current = bus'.open[Len(bus'.open)]
            /\ ~bus'.all[bus'.current].shutdown_flag
            /\ bus'.all[bus'.current].sync_listeners = {}
            /\ bus'.all[bus'.current].async_listeners = {}
            /\ bus'.all[bus'.current].sync_subs = {}
            /\ bus'.all[bus'.current].async_subs = {}
            /\ bus'.all[bus'.current].queue = <<>>]_vars

\* a first session, in which a listener was registered and an event queued,
\* was exited, and a second session is entered
C17_Witness ==
    /\ bus.open = <<2>>
    /\ bus.current = 2
    /\ bus.sent = 1
    /\ bus.regs = 1
    /\ bus.all[1].shutdown_flag
    /\ bus.all[2].queue = <<>>
    /\ bus.all[2].async_listeners = {}
    /\ bus.all[2].async_subs = {}
    /\ bus.last.invoked = {}

----------------------------------------------------------------------------
----------------------------------------------------------------------------
\* C20, as stated: a requested pattern that is not itself the name of a
\* target yields the tasks whose names match it, each once, in the order
\* they were registered; a request that matches none is an error.
C20_Glob ==
    (eng.op = "create" /\ eng.arg[1] \in Patterns) =>
        LET matches == SelectSeq(eng.targets, LAMBDA k : fnmatch(k, eng.arg[1]))
        IN  IF matches = <<>> THEN eng.err = "ValueError"
            ELSE eng.err = "" /\ eng.out = matches

----------------------------------------------------------------------------
\* C21, as stated: the text a shell recipe displays for its start holds the
\* value of no redacted parameter, while the command that is executed holds
\* the real values; two recipes that differ only in a redacted value
\* display the same text.
C21_Redacted ==
    shr.pc \in {"running", "done"} =>
        /\ \A n \in shr.redacted : shr.kwargs[n] \notin Range(shr.shown)
        /\ \A n \in {"secret", "plain"} : shr.kwargs[n] \in Range(shr.ran)
        /\ "secret" \in shr.redacted =>
                \A v \in {"s1", "s2"} :
                    start([shr EXCEPT !.kwargs.secret = v]) = shr.shown

----------------------------------------------------------------------------
----------------------------------------------------------------------------
\* C23, as stated: when a recipe made by the recipe decorator is resolved,
\* its function is called with every argument that was a recipe replaced by
\* the recipe's result, a list of recipes by the list of their results, at
\* the same position or keyword, and every other argument as it was given.
C23_Passed ==
    scn.pc = "called" =>
        LET expect(v) ==
                IF v.t = "recipe" THEN Res(v)
                ELSE IF /\ v.t \in {"list", "tuple"}
                        /\ v.e # <<>>
                        /\ \A i \in DOMAIN v.e : v.e[i].t = "recipe"
                THEN [t |-> "list", n |-> 0, e |-> [i \in DOMAIN v.e |-> Res(v.e[i])]]
                ELSE v
            given == scn.bound_args
        IN  /\ scn.err = ""
            /\ scn.call.args = [i \in DOMAIN given.args |-> expect(given.args[i])]
            /\ scn.call.kwargs =
                    [i \in DOMAIN given.kwargs |->
                        [key |-> given.kwargs[i].key, val |-> expect(given.kwargs[i].val)]]

----------------------------------------------------------------------------
\* C24, as stated: every argument is classified as one of NORMAL, RECIPE and
\* PATH: a Recipe or a non-empty iterable (a list, a tuple, a set) of only
\* Recipes is RECIPE, a Path or a non-empty iterable of only Paths is PATH,
\* anything else is NORMAL.
C24_AnyIterable ==
    scn.pc = "lambda" =>
        LET given == scn.bound_args.args \o
                        [i \in DOMAIN scn.bound_args.kwargs |-> scn.bound_args.kwargs[i].val]
            only(v, t) == v.e # <<>> /\ \A i \in DOMAIN v.e : v.e[i].t = t
        IN  \A i \in DOMAIN given :
                scn.s.types[i] =
                    IF given[i].t = "recipe" \/ only(given[i], "recipe") THEN "RECIPE"
                    ELSE IF given[i].t = "path" \/ only(given[i], "path") THEN "PATH"
                    ELSE "NORMAL"

\* C24, amended: the iterables that count are the sequences (lists, tuples)
\* and generators: a Recipe or a non-empty sequence of only Recipes is
\* RECIPE, a Path or a non-empty sequence of only Paths is PATH, anything
\* else (an empty or mixed sequence, a set) is NORMAL; component_list() and
\* component_map() hold exactly the RECIPE-classified positional and keyword
\* arguments in their original order, and paths() exactly the PATH values.
C24_Sequences ==
    scn.pc = "lambda" =>
        LET pos == scn.bound_args.args
            kw == scn.bound_args.kwargs
            given == pos \o [i \in DOMAIN kw |-> kw[i].val]
            seq(v) == v.t \in {"list", "tuple"}
            only(v, t) == seq(v) /\ v.e # <<>> /\ \A i \in DOMAIN v.e : v.e[i].t = t
            type(v) ==
                IF v.t = "recipe" \/ only(v, "recipe") THEN "RECIPE"
                ELSE IF v.t = "path" \/ only(v, "path") THEN "PATH"
                ELSE "NORMAL"
            elems(v) == IF seq(v) THEN v.e ELSE <<v>>
            S == scn.s
            listed == [j \in DOMAIN S.arg_offsets |-> S.args[S.arg_offsets[j]]]
            mapped == SelectSeq(S.kwargs,
                                LAMBDA p : \E j \in DOMAIN S.kwarg_keys : S.kwarg_keys[j] = p.key)
            wanted == SelectSeq(pos, LAMBDA v : type(v) = "RECIPE")
            wantedkw == SelectSeq(kw, LAMBDA p : type(p.val) = "RECIPE")
            pathvals == SelectSeq(given, LAMBDA v : type(v) = "PATH")
        IN  /\ \A i \in DOMAIN given : S.types[i] = type(given[i])
            /\ Len(listed) = Len(wanted)
            /\ \A j \in DOMAIN listed : elems(listed[j]) = elems(wanted[j])
            /\ Len(mapped) = Len(wantedkw)
            /\ \A j \in DOMAIN mapped :
                    /\ mapped[j].key = wantedkw[j].key
                    /\ elems(mapped[j].val) = elems(wantedkw[j].val)
            /\ LET RECURSIVE flat(_)
                   flat(vs) == IF vs = <<>> THEN <<>>
                               ELSE elems(Head(vs)) \o flat(Tail(vs))
               IN  S.paths = flat(pathvals)

\* a recipe, a list of two paths and, by keyword, a list of recipes were
\* scanned
C24_Witness ==
    /\ scn.pc = "lambda"
    /\ Len(scn.bound_args.args) = 2
    /\ scn.s.types = <<"RECIPE", "PATH", "RECIPE">>
    /\ scn.s.arg_offsets = <<1>>
    /\ scn.s.kwarg_keys = <<"k">>
    /\ Len(scn.s.paths) = 2

----------------------------------------------------------------------------
\* C28, as stated: when make() returns an iterable that contains recipes, at
\* any position and also in a list nested inside it, the expansion loop
\* ends once every returned recipe has resolved to a plain value, and the
\* value saved holds no Recipe, neither as an element nor in a nested list
\* of recipes.
C28_Expands ==
    /\ scn.pc = "expanding" ~> scn.pc = "saved"
    /\ [](scn.pc = "saved" =>
            \A i \in DOMAIN scn.saved_result :
                LET v == scn.saved_result[i]
                IN  /\ v.t # "recipe"
                    /\ ~(/\ v.t \in {"list", "tuple"}
                         /\ v.e # <<>>
                         /\ \A j \in DOMAIN v.e : v.e[j].t = "recipe"))

----------------------------------------------------------------------------
\* C25, as stated: while a singleton stays bound (it is neither provided
\* again under its own name nor unbound) its provider is called at most
\* once, whatever is required and whatever is provided under other names,
\* and require answers with the value kept for it.
C25_Once ==
    inj.pc = "ready" =>
        \A nm \in DOMAIN inj.resources :
            inj.resources[nm].singleton =>
                /\ inj.runs[nm] <= 1
                /\ inj.runs[nm] = 1 => nm \in DOMAIN inj.singletons

----------------------------------------------------------------------------
\* C26: constructing an injector raises CircularDependencyError exactly when
\* the dependencies of the providers form a cycle of any length: some
\* resource reaches itself along one or more dependencies; an acyclic graph,
\* also one in which a resource is reached along several paths, is accepted.
C26_Cycles ==
    inj.pc \in {"ready", "error"} =>
        LET G == inj.dep_graph
            N == {<<"a">>, <<"b">>, <<"c">>}
            step(S) == S \cup UNION {G[x] : x \in S}
            reach(x) == step(step(G[x]))
            cyclic == \E x \in N : x \in reach(x)
        IN  /\ inj.ops = 0 =>
                /\ inj.pc = "error" <=> cyclic
                /\ inj.last.err = "CircularDependencyError" <=> cyclic
            /\ inj.pc = "error" => inj.last.err = "CircularDependencyError"

\* an injector was constructed from providers in which a reaches c directly
\* and through b
C26_Witness ==
    /\ inj.pc = "ready"
    /\ inj.dep_graph[<<"a">>] = {<<"b">>, <<"c">>}
    /\ inj.dep_graph[<<"b">>] = {<<"c">>}

----------------------------------------------------------------------------
\* C27, as stated: when make() returned without raising and the recipe is
\* not done afterwards (the target is missing or older than an input, or a
\* recipe without target returned None), the call fails: no result stays
\* saved, one FAIL event was sent and no SUCCESS, and the call raises
\* BuildError.
C27_NotDone ==
    \A id \in DOMAIN frames :
        LET fr == frames[id]
            r == fr.r
            notdone ==
                IF has_target(r)
                THEN /\ ~is_symlink(fs, target[r])
                     /\ \/ ~exists(fs, target[r])
                        \/ outdated(fs, r, now) = OkB(TRUE)
                ELSE fr.out = "none"
        IN  (fr.pc = "done" /\ fr.out \notin {"", "raise"} /\ notdone)
                => /\ saved_result[r] = None
                   /\ fr.endp = "make"
                   /\ ~fr.ret.ok
                   /\ fr.ret.exc.type = "BuildError"
                   /\ Len(fr.fails) = 1

\* C27, amended: when make() returned a result that passes the target guard
\* (any result for a recipe without target, the target's path for a recipe
\* with one) and the recipe is not done afterwards, the call fails: the
\* saved result is reset to None, one FAIL event was sent, carrying the
\* error that make() did not complete, and no SUCCESS, and the call raises
\* BuildError.  A result that fails the guard also ends the call with FAIL
\* and BuildError, and leaves the saved result as it was.
C27_NotDoneChecked ==
    \A id \in DOMAIN frames :
        LET fr == frames[id]
            r == fr.r
            notdone ==
                IF has_target(r)
                THEN /\ ~is_symlink(fs, target[r])
                     /\ \/ ~exists(fs, target[r])
                        \/ outdated(fs, r, now) = OkB(TRUE)
                ELSE fr.out = "none"
        IN  /\ (/\ fr.pc = "done"
                /\ fr.out \in {"write", "write_alt", "nowrite", "value", "none"}
                /\ ~(has_target(r) /\ fr.out = "none")
                /\ notdone)
                    => /\ saved_result[r] = None
                       /\ fr.endp = "make"
                       /\ ~fr.ret.ok
                       /\ fr.ret.exc.type = "BuildError"
                       /\ Len(fr.fails) = 1
                       /\ fr.fails[1] = error("Recipe make() didn't complete successfully.")
            /\ (/\ fr.pc = "done"
                /\ has_target(r)
                /\ fr.out \in {"stray", "none"})
                    => /\ fr.endp = "make"
                       /\ ~fr.ret.ok
                       /\ fr.ret.exc.type = "BuildError"
                       /\ Len(fr.fails) = 1
                       /\ fr.fails[1].type = "AssertionError"

\* the make() of lib returned the path of lib.a without writing the file,
\* after an earlier call had built it and it was removed or outdated since
C27_Witness ==
    \E id \in DOMAIN frames :
        /\ frames[id].r = "lib"
        /\ frames[id].pc = "done"
        /\ frames[id].out = "nowrite"
        /\ round = 2
        /\ saved_result["lib"] = None
        /\ frames[id].ret.exc.type = "BuildError"

----------------------------------------------------------------------------
\* C30, as stated: a step that resolves dependencies or components
\* concurrently raises CompositeError when two or more siblings failed in
\* it; when exactly one sibling failed the step raises that sibling's own
\* error; when none failed the step raises no error.
C30_TwoOrMore ==
    \A id \in DOMAIN frames :
        LET fr == frames[id]
        IN  (fr.pc = "done" /\ fr.endp \in {"deps", "comps"} /\ ~sync[fr.r]) =>
                /\ Cardinality(fr.bad) >= 2 => fr.fails[1].type = "CompositeError"
                /\ Cardinality(fr.bad) = 1 => fr.fails[1] \in fr.bad
                /\ fr.bad = {} => fr.fails[1].type # "CompositeError"

\* C30, amended: a step that resolves dependencies or components
\* concurrently raises CompositeError when one or more siblings failed in
\* it, and the CompositeError holds the class and the message of every
\* failed sibling's error, also when there is exactly one; when none failed
\* the step raises no CompositeError and the resolution goes on.
C30_OneOrMore ==
    \A id \in DOMAIN frames :
        LET fr == frames[id]
        IN  ~sync[fr.r] =>
                /\ (fr.pc = "done" /\ fr.endp \in {"deps", "comps"}) =>
                        /\ Len(fr.fails) = 1
                        /\ fr.bad # {} <=> fr.fails[1].type = "CompositeError"
                        /\ \A e \in fr.bad :
                                /\ <<"class", e.type>> \in fr.fails[1].text
                                /\ e.text \subseteq fr.fails[1].text
                /\ (fr.pc \in {"comps", "make"}
                        \/ (fr.pc = "done" /\ fr.endp \in {"make", "ok"})) =>
                        fr.bad = {}

\* exactly one of app's two components failed while app resolved them
\* concurrently, and the step raised a CompositeError
C30_Witness ==
    \E id \in DOMAIN frames :
        /\ frames[id].r = "app"
        /\ ~sync["app"]
        /\ frames[id].pc = "done"
        /\ frames[id].endp = "comps"
        /\ Cardinality(frames[id].bad) = 1
        /\ frames[id].fails[1].type = "CompositeError"

----------------------------------------------------------------------------
\* the recipes a resolution of r calls as components or dependencies
edges(r) == Range(components(r)) \cup Range(dependencies(r))

\* r is on a cycle of the relation of components and dependencies
on_cycle(r) ==
    LET RECURSIVE reach(_, _)
        reach(S, n) == IF n = 0 THEN S
                       ELSE reach(S \cup UNION {edges(x) : x \in S}, n - 1)
    IN  r \in reach(edges(r), Cardinality(Recipes))

\* call id waits for the lock of its recipe while one of the calls it is
\* nested in is resolving that recipe
blocked(F, id) ==
    /\ id \in DOMAIN F
    /\ F[id].pc = "lock"
    /\ \E k \in 1..(Len(id) - 1) :
            /\ F[SubSeq(id, 1, k)].r = F[id].r
            /\ F[SubSeq(id, 1, k)].pc \in Phases

\* every top-level call has returned or raised
all_done == \A id \in DOMAIN frames : Len(id) = 1 => frames[id].pc = "done"

\* call id can go on: its lock is free, its make() is running, or the
\* sibling calls it awaits have ended
can_step(id) ==
    LET fr == frames[id]
    IN  \/ fr.pc = "lock" /\ ~lock[fr.r]
        \/ fr.pc = "make"
        \/ /\ fr.pc \in Phases
           /\ IF Sequential(fr.r, fr.pc)
              THEN /\ Append(id, fr.i + 1) \in DOMAIN frames
                   /\ frames[Append(id, fr.i + 1)].pc = "done"
              ELSE \A g \in Kids(frames, id) : frames[g].pc = "done"

\* C29, as stated: when the relation of components and dependencies holds a
\* cycle, a call of a recipe on the cycle never completes (it neither
\* returns nor raises); when the relation holds no cycle, a call does not
\* come to a halt before it has completed.
C29_Cycle ==
    /\ \A id \in DOMAIN frames :
            (Len(id) = 1 /\ on_cycle(frames[id].r)) => frames[id].pc # "done"
    /\ (/\ ~Idle
        /\ \A r \in Recipes : ~on_cycle(r)
        /\ \A id \in DOMAIN frames : ~can_step(id)) => all_done

\* C29, amended: a call that finds its recipe being resolved by one of the
\* calls it is nested in (which happens only on a cycle of the relation)
\* waits for the lock that call holds and stays so for ever: neither it nor
\* any of the calls around it returns or raises, and no FAIL event is sent.
\* A call on a cycle completes when it fails before it comes to the recipe
\* that closes the cycle (in its setup, or under sync in an earlier
\* sibling): it raises that error (nothing is built before the call here,
\* so no call is answered from the done-check).  A call comes to a halt
\* only completed or with such a wait below it, and so only completed when
\* the relation holds no cycle.
C29_Blocked ==
    /\ [](\A id \in DOMAIN frames :
            /\ blocked(frames, id) =>
                /\ on_cycle(frames[id].r)
                /\ lock[frames[id].r]
                /\ ~can_step(id)
                /\ \A k \in 1..(Len(id) - 1) :
                        /\ frames[SubSeq(id, 1, k)].pc \in Phases
                        /\ ~can_step(SubSeq(id, 1, k))
                        /\ frames[SubSeq(id, 1, k)].ret = NoRet
                        /\ frames[SubSeq(id, 1, k)].fails = <<>>
            /\ (Len(id) = 1 /\ on_cycle(frames[id].r) /\ frames[id].pc = "done") =>
                /\ ~frames[id].ret.ok
                /\ frames[id].ret.exc.type = "BuildError"
                /\ frames[id].endp \in Phases)
    /\ []((~Idle /\ \A id \in DOMAIN frames : ~can_step(id)) =>
            \/ all_done
            \/ \E id \in DOMAIN frames : blocked(frames, id))
    /\ [][\A id \in DOMAIN frames : blocked(frames, id) => blocked(frames', id)]_vars

\* obj was given the dependency app; app resolves its components
\* concurrently, and the call of app made for obj waits for the lock of app
C29_Witness ==
    /\ added["obj"] = <<"app">>
    /\ ~sync["app"]
    /\ \E id \in DOMAIN frames :
            /\ Len(id) = 3
            /\ frames[id].r = "app"
            /\ frames[id].pc = "lock"
            /\ frames[SubSeq(id, 1, 1)].r = "app"
            /\ frames[SubSeq(id, 1, 1)].pc = "comps"

----------------------------------------------------------------------------
(* Order of the sibling calls (SpecConc).                                  *)

\* C31: under sync a recipe calls its components one after another in the
\* order of components(), the positional ones before the mapped ones: the
\* components attempted so far are the first k, all but the last of them
\* have returned, and at most the call of the k-th one is in flight.
C31_SyncInOrder ==
    \A id \in DOMAIN frames :
        LET fr == frames[id]
            r == fr.r
            att == fr.att["comps"]
            k == Cardinality(att)
        IN  sync[r] /\ att # {} =>
                /\ components(r) = component_list[r] \o component_map[r]
                /\ att = 1..k
                /\ 1..(k - 1) \subseteq fr.fin["comps"]
                /\ fr.pc = "comps" =>
                      \A g \in Kids(frames, id) :
                          /\ g = Append(id, k)
                          /\ frames[g].r = components(r)[k]
                          /\ fr.fin["comps"] = 1..(k - 1)

\* under sync, app's second component obj (the mapped one) is being called
\* after its first component lib (the positional one) has returned
C31_Witness ==
    \E id \in DOMAIN frames :
        /\ frames[id].r = "app"
        /\ sync["app"]
        /\ frames[id].pc = "comps"
        /\ frames[id].fin["comps"] = {1}
        /\ Append(id, 2) \in DOMAIN frames
        /\ frames[Append(id, 2)].r = "obj"
        /\ frames[Append(id, 2)].pc = "make"

\* without sync the calls of lib and obj overlap: both are in make(), and
\* either one may end first
C31_Overlap ==
    \E id \in DOMAIN frames :
        /\ frames[id].r = "app"
        /\ ~sync["app"]
        /\ frames[id].pc = "comps"
        /\ frames[Append(id, 1)].pc = "make"
        /\ frames[Append(id, 2)].pc = "make"

\* without sync, obj has ended while lib is still in make()
C31_SecondFirst ==
    \E id \in DOMAIN frames :
        /\ frames[id].r = "app"
        /\ ~sync["app"]
        /\ frames[id].pc = "comps"
        /\ frames[Append(id, 1)].pc = "make"
        /\ frames[Append(id, 2)].pc = "done"

----------------------------------------------------------------------------
\* C32: a resolution of a recipe that has a setup recipe calls setup before
\* anything else: no dependency or component of the resolution is called
\* and make() is not started until the call of setup has returned, and when
\* the call of setup raises, no dependency or component is ever called,
\* make() is not started and the call of the recipe raises BuildError.
C32_SetupFirst ==
    \A id \in DOMAIN frames :
        LET fr == frames[id]
            started == \/ fr.att["deps"] # {}
                       \/ fr.att["comps"] # {}
                       \/ fr.made
            resolving == fr.pc \in Phases \cup {"make"}
                         \/ (fr.pc = "done" /\ fr.endp \notin {"cached", "check"})
        IN  setup[fr.r] # NoRecipe =>
                /\ resolving => fr.att["setup"] = {1}
                /\ fr.pc = "setup" =>
                      /\ Kids(frames, id) = {Append(id, 1)}
                      /\ frames[Append(id, 1)].r = setup[fr.r]
                /\ started => fr.fin["setup"] = {1} /\ fr.endp # "setup"
                /\ fr.pc = "done" /\ fr.endp = "setup" =>
                      /\ ~started
                      /\ fr.bad # {}
                      /\ ~fr.ret.ok
                      /\ fr.ret.exc.type = "BuildError"
                      /\ sigil(fr.r) \in fr.ret.exc.text

\* a call of gen ended with BuildError because its setup cfg raised
C32_Witness ==
    \E id \in DOMAIN frames :
        /\ frames[id].r = "gen"
        /\ frames[id].pc = "done"
        /\ frames[id].endp = "setup"
        /\ frames[id].ret.exc.type = "BuildError"

----------------------------------------------------------------------------
(* Events of a call (SpecLog).                                             *)

\* C33, as stated: a call that got past the done-check and ended has logged
\* exactly one of SUCCESS and FAIL, SUCCESS when it returned and FAIL when
\* it raised; a SUCCESS comes after the START of the same call; START is
\* logged only when every ordering dependency has been resolved; and a call
\* answered from the done-check logs nothing.
C33_OneTerminal ==
    \A id \in DOMAIN frames :
        LET fr == frames[id]
            terminal == {i \in DOMAIN fr.ev : fr.ev[i] \in {"success", "fail"}}
            starts == {i \in DOMAIN fr.ev : fr.ev[i] = "start"}
        IN  /\ fr.pc = "done" /\ fr.endp \notin {"cached", "check"} =>
                /\ Cardinality(terminal) = 1
                /\ \A i \in terminal :
                      fr.ev[i] = (IF fr.ret.ok THEN "success" ELSE "fail")
            /\ \A i \in terminal :
                  fr.ev[i] = "success" => \E j \in starts : j < i
            /\ starts # {} => fr.fin["deps"] = Siblings(fr.r, "deps") /\ starts = {1}
            /\ fr.endp \in {"cached", "check"} => fr.ev = <<>>

----------------------------------------------------------------------------
\* C34, as stated: a step that is clean() on a recipe with keep=True leaves
\* the recipe's target and each of its cleanup_files as they are, and its
\* saved_result unchanged.
C34_KeepAll ==
    [][LET C == clean([fs |-> fs, sr |-> saved_result], root)
       IN  (/\ Idle
            /\ root # NoRecipe
            /\ keep[root]
            /\ env' = env + 1
            /\ fs' = C.fs
            /\ saved_result' = C.sr)
           => /\ fs'[target[root]] = fs[target[root]]
              /\ \A f \in Range(cleanup_files[root]) : fs'[f] = fs[f]
              /\ saved_result'[root] = saved_result[root]]_vars

----------------------------------------------------------------------------
\* C35, as stated: every call of Shell.run that waits for a job slot gets
\* one and starts its process, whatever calls of set_max_jobs came before
\* (none included), every started process ends with run returning, and the
\* return gives the slot back to the semaphore the call entered.
C35_Acquires ==
    /\ \A c \in Cmds : shell.cmds[c].pc = "wait" ~> shell.cmds[c].pc = "running"
    /\ \A c \in Cmds : shell.cmds[c].pc = "running" ~> shell.cmds[c].pc = "idle"
    /\ [][\A c \in Cmds :
            (shell.cmds[c].pc = "running" /\ shell'.cmds[c].pc = "idle")
                => shell'.sems[shell.cmds[c].sem] = shell.sems[shell.cmds[c].sem] + 1]_vars

----------------------------------------------------------------------------
\* C36, as stated: whatever dependency was added to whatever recipe (by
\* add_dependency or by the injection of recipe(dep=...), which calls it),
\* a recipe that was not given itself as a dependency is not listed in its
\* own dependencies(), also when the dependency added to a recipe is one of
\* that recipe's components, and no call waits for the lock of its recipe
\* while a call it is nested in resolves that recipe.
C36_NoSelf ==
    /\ \A r \in Recipes :
            (r \in Range(dependencies(r)))
                => \A p \in Recipes :
                        r \in Range(components(p)) => r \notin Range(added[p])
    /\ \A id \in DOMAIN frames : ~blocked(frames, id)

----------------------------------------------------------------------------
\* C37, as stated: EventBus.get() gives the bus of the innermost session
\* that is entered and not yet exited, and ValueError only when no session
\* is; after the exit of a session nested in another one it gives the bus
\* of the outer session again, and the bus of every session that is still
\* entered has not been shut down.
C37_Innermost ==
    /\ bus.current = (IF bus.open = <<>> THEN 0 ELSE bus.open[Len(bus.open)])
    /\ \A i \in DOMAIN bus.open : ~bus.all[bus.open[i]].shutdown_flag

----------------------------------------------------------------------------
\* C38, as stated: for a recipe with a file target, when the target, the
\* static files and every file its components and dependencies read exist,
\* outdated() and done() return a boolean and raise nothing, whether the
\* recipe has components, dependencies, both or neither; and when one of
\* its dependencies has a target newer than the recipe's own, outdated()
\* returns True.
C38_Total ==
    \A r \in Recipes :
        (/\ has_target(r)
         /\ \A f \in OwnFiles(r) : fs[f].kind = "file")
        => /\ outdated(fs, r, now).exc = ""
           /\ done(fs, saved_result, r).exc = ""
           /\ (\E d \in Range(dependencies(r)) :
                    /\ has_target(d)
                    /\ fs[target[d]].mtime > fs[target[r]].mtime)
                => outdated(fs, r, now) = OkB(TRUE)

\* the same for the recipes that have components and no dependency alone:
\* outdated() and done() raise nothing
C38_ComponentsOnly ==
    \A r \in Recipes :
        (/\ has_target(r)
         /\ has_components(r)
         /\ dependencies(r) = <<>>
         /\ \A f \in OwnFiles(r) : fs[f].kind = "file")
        => /\ outdated(fs, r, now).exc = ""
           /\ done(fs, saved_result, r).exc = ""

----------------------------------------------------------------------------
(* Cleaning with removals that fail: remove_paths raises for the targets   *)
(* in denied (a PermissionError, say).  The state T of a call holds the    *)
(* filesystem, the saved results, the recipes whose clean() failed in call *)
(* order, and the recipes whose clean() was called.                        *)

\* the error Recipe.clean raises for recipe r
clean_error(r) ==
    From(error("Failed to clean target."),
         Exc("PermissionError", {<<"path", target[r]>>}))

\* Recipe.clean with the removal of the targets in denied failing: the
\* cleanup files are removed first; a failing target stays and the saved
\* result is kept
clean_denied(T, r, denied) ==
    LET F1 == remove_paths(T.fs, cleanup_files[r])
        T1 == [T EXCEPT !.fs = F1, !.cleaned = @ \cup {r}]
    IN  IF \/ ~has_target(r)
           \/ F1[target[r]].kind = "absent"
           \/ keep[r]
        THEN T1
        ELSE IF target[r] \in denied
        THEN [T1 EXCEPT !.failed = Append(@, r)]
        ELSE [T1 EXCEPT !.fs = remove_paths(F1, <<target[r]>>),
                        !.sr = [@ EXCEPT ![r] = None]]

RECURSIVE CleanAllDenied(_, _, _)
CleanAllDenied(T, rs, denied) ==
    IF rs = <<>> THEN T
    ELSE CleanAllDenied(clean_denied(T, Head(rs), denied), Tail(rs), denied)

\* the recipes the calls c.clean_components(recursive=True) of the recipes
\* rs clean in turn
RECURSIVE Below(_)
Below(rs) ==
    IF rs = <<>> THEN <<>>
    ELSE LET c == Head(rs)
         IN  components(c) \o deps[c] \o added[c] \o Below(Tail(rs))

\* the tasks gather() starts run in the order they were created, and every
\* clean() runs to its end once started: the recipes are cleaned level by
\* level, a failure stopping none of the tasks already created
RECURSIVE clean_levels(_, _, _, _)
clean_levels(T, rs, recursive, denied) ==
    IF rs = <<>> THEN T
    ELSE LET T1 == CleanAllDenied(T, rs, denied)
         IN  IF recursive THEN clean_levels(T1, Below(rs), TRUE, denied) ELSE T1

\* Recipe.clean_components with failing removals.  Not recursive: gather
\* collects the exceptions (return_exceptions=True) and they are raised as
\* one CompositeError.  Recursive: gather raises the first exception that
\* reaches it, as it is; no exception is ever in results
clean_components_denied(S, r, recursive, denied) ==
    LET recipes == IF recursive THEN components(r) \o deps[r] \o added[r]
                   ELSE components(r)
        T == clean_levels([fs |-> S.fs, sr |-> S.sr, failed |-> <<>>,
                           cleaned |-> {}], recipes, recursive, denied)
    IN  [fs |-> T.fs, sr |-> T.sr, failed |-> T.failed, cleaned |-> T.cleaned,
         exc |-> IF T.failed = <<>> THEN NoExc
                 ELSE IF recursive THEN clean_error(Head(T.failed))
                 ELSE CompositeError({clean_error(c) : c \in Range(T.failed)},
                                     "Failed to clean one or more components."),
         reported |-> IF T.failed = <<>> THEN {}
                      ELSE IF recursive THEN {Head(T.failed)}
                      ELSE Range(T.failed)]

\* r.clean_components(recursive) while the removal of the targets in denied
\* fails
CleanComponentsDenied(r, recursive, denied) ==
    LET C == clean_components_denied([fs |-> fs, sr |-> saved_result], r,
                                     recursive, denied)
    IN  /\ Idle
        /\ fs' = C.fs
        /\ saved_result' = C.sr
        /\ cln' = [pc |-> "done", r |-> r, recursive |-> recursive,
                   denied |-> denied, exc |-> C.exc, failed |-> C.failed,
                   cleaned |-> C.cleaned, reported |-> C.reported]
        /\ UNCHANGED <<now, lock, active, sync, frames, root, round, makes,
                       makes0, startDone, lastRet, failed, odd, env, shell,
                       bus, eng, shr, scn, inj, added, raising, ainj>>

\* some of the targets are built, with the result saved by their recipes
InitClean ==
    /\ fs \in {F \in [Files -> {Absent, [kind |-> "file", mtime |-> 0]}] :
                \A f \in Files \ Targets : F[f].kind = "file"}
    /\ now = 0
    /\ saved_result = [r \in Recipes |->
                          IF has_target(r) /\ exists(fs, target[r])
                          THEN PathV(target[r], 0) ELSE None]
    /\ lock = [r \in Recipes |-> FALSE]
    /\ active = {}
    /\ sync = [r \in Recipes |-> FALSE]
    /\ frames = <<>>
    /\ root = NoRecipe
    /\ round = 0
    /\ makes = [r \in Recipes |-> 0]
    /\ makes0 = [r \in Recipes |-> 0]
    /\ startDone = [r \in Recipes |-> FALSE]
    /\ lastRet = None
    /\ failed = FALSE
    /\ Fresh
    /\ odd = 0
    /\ env = 0

NextClean ==
    \E r \in Recipes, recursive \in BOOLEAN, denied \in SUBSET Denied :
        CleanComponentsDenied(r, recursive, denied)

SpecClean == InitClean /\ [][NextClean]_vars

\* the recipes in the scope of r.clean_components(recursive)
RECURSIVE C39_Below(_)
C39_Below(r) ==
    LET kids == Range(components(r) \o deps[r] \o added[r])
    IN  kids \cup UNION {C39_Below(c) : c \in kids}

\* C39: a call of clean_components, recursive or not, has called clean() on
\* every recipe in its scope, and when some of them failed it raises one
\* CompositeError that carries the failure of each of them
C39_AllTogether ==
    cln.pc = "done" =>
        /\ cln.cleaned = IF cln.recursive THEN C39_Below(cln.r)
                         ELSE Range(components(cln.r))
        /\ cln.failed = <<>> => cln.exc = NoExc
        /\ cln.failed # <<>> =>
              /\ cln.exc.type = "CompositeError"
              /\ cln.reported = Range(cln.failed)

----------------------------------------------------------------------------
(* xeno.async_injector.AsyncInjector: one require whose resolution gathers *)
(* several dependents of one singleton resource.  Every dependent is a     *)
(* task that requires the singleton through _require_coro.  ainj.calls     *)
(* holds the outcome of every call of the singleton's provider, and the    *)
(* object the n-th call returns is n; raises is the set of the calls that  *)
(* raise, suspends says whether the provider awaits before it ends.  A     *)
(* task runs from one suspension to the next in one step.                  *)

Dependents(A) == DOMAIN A.tasks

\* faulty variant: the lock never makes a task wait
lock_free_always(A) == TRUE

\* asyncio.Lock.acquire does not suspend when the lock is free and no task
\* waits for it (a waiter that was woken stays in _waiters until it runs)
lock_free(A) == ~A.locked /\ A.waiters = <<>>

\* asyncio.Lock.release: the first waiter is woken
release(A) == [A EXCEPT !.locked = FALSE]

\* the provider called by task t ends: the singleton is stored and
\* returned, or the exception leaves the wrapper; the lock is released
\* either way
provider_end(A, t) ==
    LET i == A.tasks[t].call
    IN  IF i \in A.raises
        THEN release([A EXCEPT !.calls[i] = "raised", !.tasks[t].pc = "raised"])
        ELSE release([A EXCEPT !.calls[i] = "returned", !.singletons = i,
                               !.tasks[t].pc = "got", !.tasks[t].got = i])

\* singleton = await injected_method()
injected_method(A, t) ==
    LET i == Len(A.calls) + 1
        A1 == [A EXCEPT !.calls = Append(@, "pending"), !.tasks[t].call = i]
    IN  IF A.suspends THEN [A1 EXCEPT !.tasks[t].pc = "providing"]
        ELSE provider_end(A1, t)

\* the body of wrapper() of _bind_resource_async under the lock
wrapper(A, t) ==
    IF A.singletons = 0 THEN injected_method(A, t)
    ELSE release([A EXCEPT !.tasks[t].pc = "got", !.tasks[t].got = A.singletons])

\* AsyncInjector._require_coro(name) for the singleton, up to its first
\* suspension
require_coro(A, t) ==
    IF A.singletons # 0
    THEN [A EXCEPT !.tasks[t].pc = "got", !.tasks[t].got = A.singletons]
    ELSE IF lock_free(A)
    THEN wrapper([A EXCEPT !.locked = TRUE], t)
    ELSE [A EXCEPT !.tasks[t].pc = "waiting", !.tasks[t].waited = TRUE,
                   !.waiters = Append(@, t)]

AsyncOnly == UNCHANGED <<fs, now, saved_result, lock, active, sync, frames, root,
                         round, makes, makes0, startDone, lastRet, failed, odd,
                         env, shell, bus, eng, shr, scn, inj, added, raising,
                         cln>>

\* injector.require(name) of a resource whose n parameters all depend on
\* the singleton: _resolve_dependencies creates their tasks
require_async(n, raises, suspends) ==
    /\ ainj.pc = "none"
    /\ ainj' = [ainj EXCEPT
                  !.pc = "running", !.raises = raises, !.suspends = suspends,
                  !.tasks = [t \in 1..n |-> [pc |-> "new", got |-> 0, call |-> 0,
                                             waited |-> FALSE]]]
    /\ AsyncOnly

\* a task of the gather runs for the first time
TaskStart(t) ==
    /\ ainj.pc \in {"running", "raised"}
    /\ ainj.tasks[t].pc = "new"
    /\ ainj' = require_coro(ainj, t)
    /\ AsyncOnly

\* the first waiter of the released lock runs again: it takes the lock
TaskWake(t) ==
    /\ ainj.pc \in {"running", "raised"}
    /\ ainj.tasks[t].pc = "waiting"
    /\ ~ainj.locked
    /\ ainj.waiters # <<>>
    /\ t = Head(ainj.waiters)
    /\ ainj' = wrapper([ainj EXCEPT !.locked = TRUE, !.waiters = Tail(@)], t)
    /\ AsyncOnly

\* the provider a task awaits ends
ProviderEnd(t) ==
    /\ ainj.pc \in {"running", "raised"}
    /\ ainj.tasks[t].pc = "providing"
    /\ ainj' = provider_end(ainj, t)
    /\ AsyncOnly

\* asyncio.gather ends: with the first exception, or when every task has
\* its value
GatherEnd ==
    /\ ainj.pc = "running"
    /\ \/ /\ \E t \in Dependents(ainj) : ainj.tasks[t].pc = "raised"
          /\ ainj' = [ainj EXCEPT !.pc = "raised"]
       \/ /\ \A t \in Dependents(ainj) : ainj.tasks[t].pc = "got"
          /\ ainj' = [ainj EXCEPT !.pc = "returned"]
    /\ AsyncOnly

\* asyncio.run ends: the tasks still pending are cancelled
RunEnd ==
    /\ ainj.pc \in {"returned", "raised"}
    /\ ainj' = [ainj EXCEPT
                  !.pc = "closed",
                  !.tasks = [t \in Dependents(ainj) |->
                               IF ainj.tasks[t].pc \in {"got", "raised"}
                               THEN ainj.tasks[t]
                               ELSE [ainj.tasks[t] EXCEPT !.pc = "cancelled"]]]
    /\ AsyncOnly

NextAsync ==
    \/ \E n \in 2..NDependents, raises \in SUBSET (1..NDependents),
          suspends \in BOOLEAN : require_async(n, raises, suspends)
    \/ \E t \in Dependents(ainj) : TaskStart(t)
    \/ \E t \in Dependents(ainj) : TaskWake(t)
    \/ \E t \in Dependents(ainj) : ProviderEnd(t)
    \/ GatherEnd
    \/ RunEnd

SpecAsync == Init /\ [][NextAsync]_vars

\* C40: of the calls of the singleton's provider in one require at most one
\* returns and none is made after it; a provider that never raises is
\* called once; every dependent that has a value has the value of the call
\* that returned, and a require that returns has given it to every dependent
C40_OnceReturned ==
    LET A == ainj
        returned == {i \in DOMAIN A.calls : A.calls[i] = "returned"}
    IN  /\ Cardinality(returned) <= 1
        /\ \A i \in returned : i = Len(A.calls)
        /\ A.raises = {} => Len(A.calls) <= 1
        /\ \A t \in Dependents(A) :
              A.tasks[t].pc = "got" =>
                  A.tasks[t].got = A.singletons /\ A.singletons \in returned
        /\ A.pc = "returned" =>
              /\ Cardinality(returned) = 1
              /\ \A t \in Dependents(A) : A.tasks[t].pc = "got"

\* a require of NDependents dependents has returned, the provider having
\* been called once with a dependent waiting for the lock meanwhile
C40_Witness ==
    /\ ainj.pc = "returned"
    /\ Len(ainj.tasks) = NDependents
    /\ Len(ainj.calls) = 1
    /\ \E t \in Dependents(ainj) : ainj.tasks[t].waited

\* C40 as stated: the provider is called exactly once in a require, and
\* every dependent has the same value
C40_ExactlyOnce ==
    /\ Len(ainj.calls) <= 1
    /\ ainj.pc = "returned" => Len(ainj.calls) = 1
    /\ \A t, u \in Dependents(ainj) :
          ainj.tasks[t].pc = "got" /\ ainj.tasks[u].pc = "got"
              => ainj.tasks[t].got = ainj.tasks[u].got

====
